---- MODULE Spec2Model ----
\* gqlclientgen: the GraphQL schema to Go type generator of gqlclient.
\*
\* Strings whose characters the generator inspects (type, field and enum
\* value names) are sequences of one-character strings.  The jen.Code values
\* the generator builds are records: a type expression is the sequence of
\* its prefix operators ("Index" for a slice, "Star" for a pointer) followed
\* by the leaf type.  A Go panic is the record field panic.  Descriptions
\* only produce comments and are left out.
EXTENDS Integers, Sequences, FiniteSets, TLC

\* ------------------------------------------------------------------ bounds
\* list nesting of the TypeRefs handed to genType
MaxDepth == 2
\* number of Fields / EnumValues of the definitions handed to genDef
MaxMembers == 2
\* length of the enumerated EnumValue names
MaxNameLen == 1
MaxSelections == 3

\* ------------------------------------------------------------- characters
Uppers == <<"A","B","C","D","E","F","G","H","I","J","K","L","M",
            "N","O","P","Q","R","S","T","U","V","W","X","Y","Z">>
Lowers == <<"a","b","c","d","e","f","g","h","i","j","k","l","m",
            "n","o","p","q","r","s","t","u","v","w","x","y","z">>

\* unicode.ToLower on one character
ToLowerChar(c) ==
    IF \E i \in 1..Len(Uppers) : Uppers[i] = c
    THEN Lowers[CHOOSE i \in 1..Len(Uppers) : Uppers[i] = c]
    ELSE c

\* unicode.ToTitle on one character
ToTitleChar(c) ==
    IF \E i \in 1..Len(Lowers) : Lowers[i] = c
    THEN Uppers[CHOOSE i \in 1..Len(Lowers) : Lowers[i] = c]
    ELSE c

\* strings.ToLower
ToLower(s) == [i \in 1..Len(s) |-> ToLowerChar(s[i])]

\* strings.Title on a GraphQL name: letters, digits and '_' are no word
\* separators, so only the first character is mapped.
Title(s) == IF s = <<>> THEN <<>> ELSE <<ToTitleChar(s[1])>> \o Tail(s)

\* strings.Split(s, "_"): always at least one (possibly empty) word
RECURSIVE Split(_)
Split(s) ==
    IF \A i \in 1..Len(s) : s[i] # "_"
    THEN <<s>>
    ELSE LET i == CHOOSE j \in 1..Len(s) :
                      s[j] = "_" /\ \A k \in 1..(j-1) : s[k] # "_"
         IN  <<SubSeq(s, 1, i-1)>> \o Split(SubSeq(s, i+1, Len(s)))

\* strings.Join(words, "")
RECURSIVE Join(_)
Join(words) == IF words = <<>> THEN <<>> ELSE Head(words) \o Join(Tail(words))

\* strings.HasPrefix(s, "__")
HasDoubleUnderscore(s) == Len(s) >= 2 /\ s[1] = "_" /\ s[2] = "_"

\* ------------------------------------------------------------------ names
N_Int == <<"I","n","t">>
N_Float == <<"F","l","o","a","t">>
N_String == <<"S","t","r","i","n","g">>
N_Boolean == <<"B","o","o","l","e","a","n">>
N_ID == <<"I","D">>
N_Time == <<"T","i","m","e">>
N_Map == <<"M","a","p">>
N_Upload == <<"U","p","l","o","a","d">>
N_Any == <<"A","n","y">>
N_Date == <<"D","a","t","e">>
N_Train == <<"T","r","a","i","n">>
N_Bus == <<"B","u","s">>
N_TrainInput == <<"T","r","a","i","n","I","n","p","u","t">>
N_Node == <<"N","o","d","e">>
N_Vehicle == <<"V","e","h","i","c","l","e">>
N_Sort == <<"S","o","r","t">>
N_SortOrder == <<"S","o","r","t","O","r","d","e","r">>
N_Query == <<"Q","u","e","r","y">>
N_Missing == <<"M","i","s","s","i","n","g">>
N___Type == <<"_","_","T","y","p","e">>
N___TypeKind == <<"_","_","T","y","p","e","K","i","n","d">>
N_Plane == <<"P","l","a","n","e">>

name == <<"n","a","m","e">>
maxSpeed == <<"m","a","x","S","p","e","e","d">>
id == <<"i","d">>
schemaField == <<"_","_","s","c","h","e","m","a">>
typeField == <<"_","_","t","y","p","e">>
typenameField == <<"_","_","t","y","p","e","n","a","m","e">>

ASC == <<"A","S","C">>
DESC == <<"D","E","S","C">>
ORDER_ASC == <<"O","R","D","E","R","_","A","S","C">>
ORDER_DESC == <<"O","R","D","E","R","_","D","E","S","C">>

deprecated == <<"d","e","p","r","e","c","a","t","e","d">>
include == <<"i","n","c","l","u","d","e">>

\* ast.DefinitionKind
Scalar == "SCALAR"
Enum == "ENUM"
Object == "OBJECT"
InputObject == "INPUT_OBJECT"
Interface == "INTERFACE"
Union == "UNION"

\* ----------------------------------------------------------------- ast.Type
\* Elem is <<>> for a nil pointer and <<t>> for a pointer to t.
NamedType(n, nonNull) == [NamedType |-> n, Elem |-> <<>>, NonNull |-> nonNull]
ListType(elem, nonNull) == [NamedType |-> <<>>, Elem |-> <<elem>>, NonNull |-> nonNull]

\* ------------------------------------------------------------------ schema
\* ast.Directive, ast.EnumValueDefinition, ast.FieldDefinition, ast.Definition
Directive(n) == [Name |-> n]
EnumValueDef(n, dirs) == [Name |-> n, Directives |-> dirs]
FieldDef(n, type, dirs) == [Name |-> n, Type |-> type, Directives |-> dirs]
Definition(kind, n, builtIn, fields, values) ==
    [Kind |-> kind, Name |-> n, BuiltIn |-> builtIn,
     Fields |-> fields, EnumValues |-> values]

\* The definitions of the prelude every schema is loaded with.
Prelude ==
    {Definition(Scalar, n, TRUE, <<>>, <<>>) : n \in {N_Int, N_Float, N_String, N_Boolean, N_ID}}
    \cup {Definition(Object, N___Type, TRUE,
                     <<FieldDef(name, NamedType(N_String, FALSE), <<>>)>>, <<>>),
          Definition(Enum, N___TypeKind, TRUE, <<>>,
                     <<EnumValueDef(<<"S","C","A","L","A","R">>, <<>>)>>)}

TrainFields ==
    <<FieldDef(name, NamedType(N_String, TRUE), <<>>),
      FieldDef(maxSpeed, NamedType(N_Int, TRUE), <<>>)>>

\* The declarations shared by the schemas: the README's Train, the
\* convenience scalars, and one definition of every other kind.
Declared ==
    {Definition(Scalar, n, FALSE, <<>>, <<>>) : n \in {N_Time, N_Upload, N_Any, N_Date}}
    \cup {Definition(Object, N_Train, FALSE, TrainFields, <<>>),
          Definition(Object, N_Bus, FALSE,
                     <<FieldDef(id, NamedType(N_ID, TRUE), <<>>)>>, <<>>),
          Definition(InputObject, N_TrainInput, FALSE, TrainFields, <<>>),
          Definition(Interface, N_Node, FALSE,
                     <<FieldDef(id, NamedType(N_ID, TRUE), <<>>)>>, <<>>),
          Definition(Union, N_Vehicle, FALSE, <<>>, <<>>),
          Definition(Enum, N_Sort, FALSE, <<>>,
                     <<EnumValueDef(ORDER_ASC, <<>>),
                       EnumValueDef(ORDER_DESC, <<Directive(deprecated)>>)>>),
          Definition(Enum, N_SortOrder, FALSE, <<>>,
                     <<EnumValueDef(ASC, <<>>), EnumValueDef(DESC, <<>>)>>),
          Definition(Object, N_Query, FALSE,
                     <<FieldDef(<<"t","r","a","i","n">>, NamedType(N_Train, TRUE), <<>>),
                       FieldDef(<<"b","u","s">>, NamedType(N_Bus, FALSE), <<>>),
                       FieldDef(schemaField, NamedType(N___Type, TRUE), <<>>),
                       FieldDef(typeField, NamedType(N___Type, FALSE), <<>>)>>, <<>>)}

\* sort.Strings: byte order, which on the characters of GraphQL names is
\* upper-case letters, the underscore, lower-case letters
Alphabet == Uppers \o <<"_">> \o Lowers
Ord(c) == CHOOSE i \in 1..Len(Alphabet) : Alphabet[i] = c

RECURSIVE Less(_, _)
Less(a, b) ==
    IF b = <<>> THEN FALSE
    ELSE IF a = <<>> THEN TRUE
    ELSE IF Head(a) # Head(b) THEN Ord(Head(a)) < Ord(Head(b))
    ELSE Less(Tail(a), Tail(b))

\* the names of a set in ascending order
RECURSIVE InNameOrder(_)
InNameOrder(names) ==
    IF names = {} THEN <<>>
    ELSE LET least == CHOOSE n \in names : \A m \in names \ {n} : Less(n, m)
         IN  <<least>> \o InNameOrder(names \ {least})

\* sort.Strings(a): the elements of a in ascending order, by insertion
RECURSIVE Insert(_, _)
Insert(n, sorted) ==
    IF sorted = <<>> THEN <<n>>
    ELSE IF Less(Head(sorted), n) THEN <<Head(sorted)>> \o Insert(n, Tail(sorted))
    ELSE <<n>> \o sorted

\* a driver that leaves the names in the order the map handed them out
SortStrings_Unsorted(a) == a

RECURSIVE SortStrings(_)
SortStrings(a) ==
    IF a = <<>> THEN <<>> ELSE Insert(Head(a), SortStrings(Tail(a)))

\* ast.Schema: Types by name, PossibleTypes by interface/union name,
\* Implements by member name (the interfaces and unions the member is a
\* possible type of, here in name order), and the root operation types
\* (<<>> for one the schema has not).
MakeSchema(defs, possible) ==
    [Types |-> [n \in {d.Name : d \in defs} |-> CHOOSE d \in defs : d.Name = n],
     PossibleTypes |-> possible,
     Implements |->
        [n \in UNION {{possible[D][i] : i \in 1..Len(possible[D])} :
                         D \in DOMAIN possible} |->
            InNameOrder({D \in DOMAIN possible :
                            \E i \in 1..Len(possible[D]) : possible[D][i] = n})],
     Query |-> N_Query,
     Mutation |-> <<>>,
     Subscription |-> <<>>]

PossibleTypes == [n \in {N_Node, N_Vehicle} |-> <<N_Bus, N_Train>>]

\* `union Vehicle = Bus | Train | Map`
PossibleTypesWithMap ==
    [PossibleTypes EXCEPT ![N_Vehicle] = <<N_Bus, N_Train, N_Map>>]

\* `scalar Map` as the README of the convenience types intends it
ScalarMapSchema ==
    MakeSchema(Prelude \cup Declared \cup {Definition(Scalar, N_Map, FALSE, <<>>, <<>>)},
               PossibleTypes)

\* a schema that declares its own `type Map { name: String }` and lists it
\* in `union Vehicle = Bus | Train | Map`
ObjectMapSchema ==
    MakeSchema(Prelude \cup Declared \cup
                   {Definition(Object, N_Map, FALSE,
                               <<FieldDef(name, NamedType(N_String, FALSE), <<>>)>>, <<>>)},
               PossibleTypesWithMap)

Schemas == {ScalarMapSchema, ObjectMapSchema}

\* ------------------------------------------------------------------ genType
Panic(msg) == [panic |-> TRUE, msg |-> msg, prefix |-> <<>>,
               gen |-> [op |-> "Null", path |-> "", name |-> <<>>]]
Code(prefix, gen) == [panic |-> FALSE, msg |-> "", prefix |-> prefix, gen |-> gen]

\* jen.Int32(), jen.String(), ..., jen.Qual(path, name), jen.Id(name)
Prim(op) == [op |-> op, path |-> "", name |-> <<>>]
Qual(path, n) == [op |-> "Qual", path |-> path, name |-> n]
Id(n) == [op |-> "Id", path |-> "", name |-> n]

gqlclient == "git.sr.ht/~emersion/gqlclient"

\* the loop `for t.Elem != nil`: one jen.Index() per List layer
\* a loop that gives a nullable List layer a pointer of its own
RECURSIVE ListPrefix_NullableListPointer(_)
ListPrefix_NullableListPointer(t) ==
    IF t.Elem # <<>>
    THEN (IF t.NonNull THEN <<>> ELSE <<"Star">>)
         \o <<"Index">> \o ListPrefix_NullableListPointer(t.Elem[1])
    ELSE <<>>

RECURSIVE ListPrefix(_)
ListPrefix(t) ==
    IF t.Elem # <<>> THEN <<"Index">> \o ListPrefix(t.Elem[1]) ELSE <<>>

\* the value of t after the loop
RECURSIVE Leaf(_)
Leaf(t) == IF t.Elem # <<>> THEN Leaf(t.Elem[1]) ELSE t

\* a generator that takes every other definition for a declared one
genLeaf_NoBuiltInCheck(def) ==
    CASE def.Name = N_Int -> Code(<<>>, Prim("Int32"))
      [] def.Name = N_Float -> Code(<<>>, Prim("Float64"))
      [] def.Name = N_String -> Code(<<>>, Prim("String"))
      [] def.Name = N_Boolean -> Code(<<>>, Prim("Bool"))
      [] def.Name = N_ID -> Code(<<>>, Prim("String"))
      [] def.Name = N_Time -> Code(<<>>, Qual(gqlclient, N_Time))
      [] def.Name = N_Map -> Code(<<>>, Prim("MapStringInterface"))
      [] def.Name = N_Upload -> Code(<<>>, Qual(gqlclient, N_Upload))
      [] def.Name = N_Any -> Code(<<>>, Prim("Interface"))
      [] OTHER -> Code(<<>>, Id(def.Name))

\* the switch on def.Name that picks the leaf type
genLeaf(def) ==
    CASE def.Name = N_Int -> Code(<<>>, Prim("Int32"))
      [] def.Name = N_Float -> Code(<<>>, Prim("Float64"))
      [] def.Name = N_String -> Code(<<>>, Prim("String"))
      [] def.Name = N_Boolean -> Code(<<>>, Prim("Bool"))
      [] def.Name = N_ID -> Code(<<>>, Prim("String"))
      [] def.Name = N_Time -> Code(<<>>, Qual(gqlclient, N_Time))
      [] def.Name = N_Map -> Code(<<>>, Prim("MapStringInterface"))
      [] def.Name = N_Upload -> Code(<<>>, Qual(gqlclient, N_Upload))
      [] def.Name = N_Any -> Code(<<>>, Prim("Interface"))
      [] OTHER -> IF def.BuiltIn
                  THEN Panic("unsupported built-in type")
                  ELSE Code(<<>>, Id(def.Name))

\* a generator that only knows ID has a recognizable zero value
NoPointerNames_OnlyID == {N_ID}

\* the names a nullable leaf needs no pointer for
NoPointerNames == {N_ID, N_Time, N_Map, N_Any}

\* a generator that forgets the pointer of nullable list elements
genPointer_NoElemPointer(t, def, toplevel) ==
    IF ~t.NonNull
    THEN IF def.Name \in NoPointerNames \/ ~toplevel THEN <<>> ELSE <<"Star">>
    ELSE IF toplevel /\ def.Kind \in {Object, Interface} THEN <<"Star">> ELSE <<>>

\* a generator that breaks recursion for objects only, not for interfaces
genPointer_ObjectOnly(t, def, toplevel) ==
    IF ~t.NonNull
    THEN IF def.Name \in NoPointerNames THEN <<>> ELSE <<"Star">>
    ELSE IF toplevel /\ def.Kind \in {Object} THEN <<"Star">> ELSE <<>>

\* a generator that knows the nullable case only
genPointer_NullableOnly(t, def, toplevel) ==
    IF ~t.NonNull /\ def.Name \notin NoPointerNames THEN <<"Star">> ELSE <<>>

\* the pointer decision after the leaf type is picked
genPointer(t, def, toplevel) ==
    IF ~t.NonNull
    THEN IF def.Name \in NoPointerNames THEN <<>> ELSE <<"Star">>
    ELSE IF toplevel /\ def.Kind \in {Object, Interface} THEN <<"Star">> ELSE <<>>

genType(schema, t) ==
    LET prefix == ListPrefix(t)
        toplevel == t.Elem = <<>>
        leaf == Leaf(t)
    IN  IF leaf.NamedType \notin DOMAIN schema.Types
        THEN Panic("unknown type name")
        ELSE LET def == schema.Types[leaf.NamedType]
                 gen == genLeaf(def)
             IN  IF gen.panic
                 THEN gen
                 ELSE Code(prefix \o genPointer(leaf, def, toplevel), gen.gen)

\* ------------------------------------------------------------------- genDef
\* ast.DirectiveList.ForName(name) != nil
ForName(list, n) == \E i \in 1..Len(list) : list[i].Name = n

\* a filter that takes any directive for a deprecation
hasDeprecated_AnyDirective(list) == list # <<>>

hasDeprecated(list) == ForName(list, deprecated)

\* the *jen.Statement genDef returns: nil, or a sequence of items
Nil == [panic |-> FALSE, msg |-> "", nil |-> TRUE, items |-> <<>>]
Stmt(items) == [panic |-> FALSE, msg |-> "", nil |-> FALSE, items |-> items]
DefPanic(msg) == [panic |-> TRUE, msg |-> msg, nil |-> FALSE, items |-> <<>>]

\* jen.Type().Id(name).String()
TypeString(n) == [item |-> "Type", name |-> n, type |-> "string"]
\* jen.Type().Id(name).Struct(fields...)
TypeStruct(n, fields) == [item |-> "Type", name |-> n, type |-> "struct", fields |-> fields]
\* jen.Const().Defs(defs...)
ConstDefs(defs) == [item |-> "Const", defs |-> defs]
\* jen.Line()
Line == [item |-> "Line"]

\* the identifier of an enum value: lower-cased, split on '_', every word
\* capitalized, the words joined
EnumValueName(valName) ==
    LET nameWords == Split(ToLower(valName))
    IN  Join([i \in 1..Len(nameWords) |-> Title(nameWords[i])])

\* the loop over def.EnumValues
RECURSIVE genEnumValues(_, _, _)
genEnumValues(def, vals, omit) ==
    IF vals = <<>> THEN <<>>
    ELSE LET val == Head(vals)
             rest == genEnumValues(def, Tail(vals), omit)
         IN  IF omit /\ hasDeprecated(val.Directives)
             THEN rest
             ELSE <<[id |-> def.Name \o EnumValueName(val.Name),
                     type |-> def.Name,
                     lit |-> val.Name]>> \o rest

omitempty == <<",","o","m","i","t","e","m","p","t","y">>

\* a generator that skips __schema and lets __type through
IsIntrospectionField_OnlySchema(n) == n = schemaField

\* the test `field.Name == "__schema" || field.Name == "__type"`
IsIntrospectionField(n) == n = schemaField \/ n = typeField

\* a generator that looks at the nullability of the leaf, not of the field
jsonTag_LeafNonNull(field) ==
    IF ~Leaf(field.Type).NonNull THEN field.Name \o omitempty ELSE field.Name

\* the json tag of a field
jsonTag(field) == IF ~field.Type.NonNull THEN field.Name \o omitempty ELSE field.Name

\* the loop over def.Fields, the same for records and interfaces; a panic
\* of genType ends it
RECURSIVE genFields(_, _, _)
genFields(schema, fields, omit) ==
    IF fields = <<>> THEN [panic |-> FALSE, msg |-> "", fields |-> <<>>]
    ELSE LET field == Head(fields)
         IN  IF omit /\ hasDeprecated(field.Directives)
             THEN genFields(schema, Tail(fields), omit)
             ELSE IF IsIntrospectionField(field.Name)
             THEN genFields(schema, Tail(fields), omit)
             ELSE LET type == genType(schema, field.Type)
                      rest == genFields(schema, Tail(fields), omit)
                  IN  IF type.panic
                      THEN [panic |-> TRUE, msg |-> type.msg, fields |-> <<>>]
                      ELSE IF rest.panic THEN rest
                      ELSE [rest EXCEPT !.fields =
                               <<[item |-> "Field",
                                  id |-> Title(field.Name),
                                  type |-> type,
                                  tag |-> [json |-> jsonTag(field)]]>> \o @]

\* schema.GetPossibleTypes(def) for an interface or union
GetPossibleTypes(schema, def) ==
    IF def.Name \in DOMAIN schema.PossibleTypes
    THEN schema.PossibleTypes[def.Name]
    ELSE <<>>

\* schema.GetImplements(def)
GetImplements(schema, def) ==
    IF def.Name \in DOMAIN schema.Implements
    THEN schema.Implements[def.Name]
    ELSE <<>>

\* strings.ToLower(string(def.Kind))
KindLower(kind) == IF kind = Interface THEN "interface" ELSE "union"

Value == <<"V","a","l","u","e">>

\* the switch of the generated UnmarshalJSON: one case per possible type,
\* the case of the empty __typename, and the default
\* cases whose empty-__typename branch returns nil for unions too
genCases_EmptyAlwaysNil(def, possibleTypes) ==
    [i \in 1..Len(possibleTypes) |->
        [lit |-> possibleTypes[i], do |-> "new", type |-> possibleTypes[i], msg |-> ""]]
    \o <<[lit |-> <<>>, do |-> "return nil", type |-> <<>>, msg |-> ""]>>
    \o <<[lit |-> <<"default">>, do |-> "return error", type |-> <<>>,
          msg |-> "unknown __typename %q"]>>

genCases(def, possibleTypes) ==
    [i \in 1..Len(possibleTypes) |->
        [lit |-> possibleTypes[i], do |-> "new", type |-> possibleTypes[i], msg |-> ""]]
    \o <<[lit |-> <<>>,
          do |-> IF def.Kind = Interface THEN "return nil" ELSE "return error",
          type |-> <<>>,
          msg |-> IF def.Kind = Interface THEN "" ELSE "missing __typename field"]>>
    \o <<[lit |-> <<"default">>, do |-> "return error", type |-> <<>>,
          msg |-> "unknown __typename %q"]>>

\* ------------------------------------------------- generated UnmarshalJSON
\* The method genDef emits for an interface or union, run on a payload.
\* A payload b is the __typename it carries (<<>> when absent) and whether
\* encoding/json accepts it for the shadow record and for the concrete
\* record; base is the record decoded into, Value its Value field.
NoError == [err |-> "", arg |-> <<>>]
JSONError == [err |-> "json", arg |-> <<>>]

\* fmt.Errorf(errPrefix + msg, data.TypeName)
\* an error text that drops its argument
Errorf_NoArg(errPrefix, msg, typeName) == [err |-> msg, arg |-> <<>>]

Errorf(errPrefix, msg, typeName) ==
    [err |-> msg, arg |-> IF msg = "unknown __typename %q" THEN typeName ELSE <<>>]

\* jen.Switch(data.TypeName).Block(cases...): the first case of that
\* literal, else the default, which is the last
\* a switch that falls to the default for every payload
SwitchCase_AlwaysDefault(cases, typeName) == cases[Len(cases)]

SwitchCase(cases, typeName) ==
    IF \E i \in 1..(Len(cases) - 1) : cases[i].lit = typeName
    THEN cases[CHOOSE i \in 1..(Len(cases) - 1) :
                   /\ cases[i].lit = typeName
                   /\ \A j \in 1..(i - 1) : cases[j].lit # typeName]
    ELSE cases[Len(cases)]

\* jen.New(jen.Id(typ.Name)): a pointer to a zero value of the type
New(type) == [type |-> type, from |-> <<>>]

\* json.Unmarshal(b, base.Value): the whole payload decoded into the value
Unmarshal(b, value) ==
    IF b.valueOK THEN [value EXCEPT !.from = <<b>>] ELSE value

UnmarshalJSON(fn, base, b) ==
    IF ~b.shadowOK
    THEN [error |-> JSONError, Value |-> base.Value, returned |-> TRUE]
    ELSE LET case == SwitchCase(fn.cases, b.TypeName)
         IN  CASE case.do = "new" ->
                    [error |-> IF b.valueOK THEN NoError ELSE JSONError,
                     Value |-> <<Unmarshal(b, New(case.type))>>,
                     returned |-> TRUE]
               [] case.do = "return nil" ->
                    [error |-> NoError, Value |-> base.Value, returned |-> TRUE]
               [] case.do = "return error" ->
                    [error |-> Errorf(fn.errPrefix, case.msg, b.TypeName),
                     Value |-> base.Value, returned |-> TRUE]

genInterface(schema, def, omit) ==
    LET possibleTypes == GetPossibleTypes(schema, def)
        gen == genFields(schema, def.Fields, omit)
        fields == (IF Len(gen.fields) > 0 THEN gen.fields \o <<Line>> ELSE <<>>)
                  \o <<[item |-> "Comment", kind |-> KindLower(def.Kind)],
                       [item |-> "Field", id |-> Value,
                        type |-> Code(<<>>, Id(def.Name \o Value)),
                        tag |-> [json |-> <<"-">>]]>>
    IN  IF gen.panic THEN DefPanic(gen.msg)
        ELSE Stmt(<<TypeStruct(def.Name, fields),
                    Line,
                    [item |-> "Func", recv |-> def.Name, name |-> "UnmarshalJSON",
                     errPrefix |-> <<KindLower(def.Kind), def.Name>>,
                     cases |-> genCases(def, possibleTypes)],
                    Line,
                    [item |-> "Comment", oneOf |-> possibleTypes],
                    [item |-> "Interface", name |-> def.Name \o Value,
                     method |-> <<"i","s">> \o def.Name]>>)

genDef(schema, def, omit) ==
    CASE def.Kind = Scalar ->
            IF def.Name \in {N_Time, N_Map, N_Upload, N_Any}
            THEN Nil
            ELSE Stmt(<<TypeString(def.Name)>>)
      [] def.Kind = Enum ->
            Stmt(<<TypeString(def.Name), Line,
                   ConstDefs(genEnumValues(def, def.EnumValues, omit))>>)
      [] def.Kind \in {Object, InputObject} ->
            LET gen == genFields(schema, def.Fields, omit)
            IN  IF gen.panic THEN DefPanic(gen.msg)
                ELSE Stmt(<<TypeStruct(def.Name, gen.fields)>>)
      [] def.Kind \in {Interface, Union} -> genInterface(schema, def, omit)
      [] OTHER -> DefPanic("unsupported definition kind")

\* ------------------------------------------------------------------- inputs
LeafNames == DOMAIN ScalarMapSchema.Types \cup {N_Missing}

RECURSIVE TypesOfDepth(_)
TypesOfDepth(d) ==
    IF d = 0
    THEN {NamedType(n, nn) : n \in LeafNames, nn \in BOOLEAN}
    ELSE {ListType(e, nn) : e \in TypesOfDepth(d - 1), nn \in BOOLEAN}

TypeRefs == UNION {TypesOfDepth(d) : d \in 0..MaxDepth}

\* sequences over S of length at most n
SeqsUpTo(S, n) == UNION {[1..k -> S] : k \in 0..n}

\* the enumerated EnumValues: short names over an upper-case letter, its
\* lower-case letter and the underscore, deprecated or not
ValueNames == SeqsUpTo({"A", "a", "_"}, MaxNameLen) \ {<<>>}
EnumValueInputs ==
    {EnumValueDef(n, dirs) : n \in ValueNames, dirs \in {<<>>, <<Directive(deprecated)>>}}

\* the enumerated Fields: an ordinary field of every type and directive
\* list, and the reserved names with a NonNull type, deprecated or not.  The
\* types are a NonNull leaf, a nullable list of NonNull elements and a type
\* genType rejects.
ReservedNames == {schemaField, typeField, typenameField}
FieldTypes == {NamedType(N_String, TRUE),
               ListType(NamedType(N_String, TRUE), FALSE),
               NamedType(N___Type, TRUE)}
DirectiveLists == {<<>>, <<Directive(include)>>,
                   <<Directive(include), Directive(deprecated)>>}
FieldInputs ==
    {FieldDef(name, type, dirs) : type \in FieldTypes, dirs \in DirectiveLists}
    \cup {FieldDef(n, NamedType(N_String, TRUE), dirs) :
              n \in ReservedNames, dirs \in {<<>>, <<Directive(deprecated)>>}}

\* the definitions handed to genDef: the schema's own, an enum with the
\* enumerated values, and a record of every kind with the enumerated fields
DefInputs(s) ==
    {s.Types[n] : n \in DOMAIN s.Types}
    \cup {[s.Types[N_SortOrder] EXCEPT !.EnumValues = vals] :
             vals \in SeqsUpTo(EnumValueInputs, MaxMembers)}
    \cup {[s.Types[n] EXCEPT !.Fields = fields] :
             n \in {N_Train, N_TrainInput, N_Node},
             fields \in SeqsUpTo(FieldInputs, MaxMembers)}

\* -------------------------------------------------------------------- main
\* the names main collects from schema.Types and sorts
TypeNamesOf(schema, order) ==
    SortStrings(SelectSeq(order,
                    LAMBDA n :
                        LET def == schema.Types[n]
                        IN  ~(\/ def.BuiltIn
                              \/ def.Name = schema.Query
                              \/ def.Name = schema.Mutation
                              \/ def.Name = schema.Subscription)))

\* `for _, def := range schema.Types`: orders in which the runtime may hand
\* out the types of the map, here the rotations of the ascending and of
\* the descending order of the names
Rotation(a, k) == [i \in 1..Len(a) |-> a[((i + k - 1) % Len(a)) + 1]]
Reverse(a) == [i \in 1..Len(a) |-> a[Len(a) + 1 - i]]
TypeMapOrders(schema) ==
    LET ascending == InNameOrder(DOMAIN schema.Types)
    IN  {Rotation(ascending, k) : k \in 0..(Len(ascending) - 1)}
        \cup {Rotation(Reverse(ascending), k) : k \in 0..(Len(ascending) - 1)}

\* f.Func().Params(recv).Id("is" + typ.Name).Params().Block()
Marker(schema, def, typName) ==
    [item |-> "Marker",
     recv |-> genType(schema, NamedType(def.Name, FALSE)),
     method |-> <<"i","s">> \o typName]

\* the markers of one type, in the order of GetImplements
Markers(schema, def) ==
    [i \in 1..Len(GetImplements(schema, def)) |->
        Marker(schema, def, GetImplements(schema, def)[i])]

\* -------------------------------------------------------------- query ast
fetchTrain == <<"f","e","t","c","h","T","r","a","i","n">>
train == <<"t","r","a","i","n">>
bus == <<"b","u","s">>
client == <<"c","l","i","e","n","t">>
ctx == <<"c","t","x">>
err == <<"e","r","r">>
respData == <<"r","e","s","p","D","a","t","a">>
FragA == <<"A">>
FragB == <<"B">>
FragQ == <<"Q">>
FragC == <<"C">>
FragL == <<"L">>
FragM == <<"M">>
FragN == <<"N">>

\* ast.VariableDefinition, ast.Argument, ast.OperationDefinition,
\* ast.FragmentDefinition
VariableDefinition(v, type) == [Variable |-> v, Type |-> type]
Argument(n, v) == [Name |-> n, Variable |-> v]
OperationDefinition(n, variables, selSet) ==
    [Operation |-> "query", Name |-> n,
     VariableDefinitions |-> variables, SelectionSet |-> selSet]
FragmentDefinition(n, cond, selSet) ==
    [Name |-> n, TypeCondition |-> cond, SelectionSet |-> selSet]

\* ast.Selection: *ast.Field with the field definition the parser resolved,
\* *ast.FragmentSpread named after its fragment, *ast.InlineFragment named
\* after its type condition
Selection(kind, alias, n, args, selSet, definition) ==
    [Kind |-> kind, Alias |-> alias, Name |-> n, Arguments |-> args,
     SelectionSet |-> selSet, Definition |-> definition]
Field(alias, n, args, selSet, type) ==
    Selection("Field", alias, n, args, selSet, <<FieldDef(n, type, <<>>)>>)
FragmentSpread(n) == Selection("FragmentSpread", <<>>, n, <<>>, <<>>, <<>>)
InlineFragment(cond, selSet) ==
    Selection("InlineFragment", <<>>, cond, <<>>, selSet, <<>>)

\* the fragments of the query document, by name:
\*   fragment A on Train { name ...B }
\*   fragment B on Train { maxSpeed }
\*   fragment Q on Query { train { ...A } }
\*   fragment C on Train { n: name }
\* and three that no validated document holds, since they spread themselves:
\*   fragment L on Train { ...L }
\*   fragment M on Train { name ...N }
\*   fragment N on Train { ...M }
\* sel.Definition of a spread is Fragments[sel.Name]
Fragments ==
    (FragA :> FragmentDefinition(FragA, N_Train,
                 <<Field(name, name, <<>>, <<>>, NamedType(N_String, TRUE)),
                   FragmentSpread(FragB)>>))
    @@ (FragB :> FragmentDefinition(FragB, N_Train,
                 <<Field(maxSpeed, maxSpeed, <<>>, <<>>, NamedType(N_Int, TRUE))>>))
    @@ (FragQ :> FragmentDefinition(FragQ, N_Query,
                 <<Field(train, train, <<>>, <<FragmentSpread(FragA)>>,
                         NamedType(N_Train, TRUE))>>))
    @@ (FragC :> FragmentDefinition(FragC, N_Train,
                 <<Field(<<"n">>, name, <<>>, <<>>, NamedType(N_String, TRUE))>>))
    @@ (FragL :> FragmentDefinition(FragL, N_Train, <<FragmentSpread(FragL)>>))
    @@ (FragM :> FragmentDefinition(FragM, N_Train,
                 <<Field(name, name, <<>>, <<>>, NamedType(N_String, TRUE)),
                   FragmentSpread(FragN)>>))
    @@ (FragN :> FragmentDefinition(FragN, N_Train, <<FragmentSpread(FragM)>>))

\* ------------------------------------------------------- collectFragments
\* One step of collectFragments(frags, selSet) on the call stack: stack
\* holds, innermost call first, what each call's loop has left to visit.
\* The result is the new frags and stack, or the panic.
\* a collector that does not descend into the fragment it has added
CollectFragmentsStep_NoDescent(frags, stack) ==
    LET selSet == Head(stack)
        rest == <<Tail(selSet)>> \o Tail(stack)
    IN  IF selSet = <<>>
        THEN [panic |-> "", frags |-> frags, stack |-> Tail(stack)]
        ELSE LET sel == Head(selSet)
             IN  CASE sel.Kind = "Field" ->
                        IF sel.Name # sel.Alias
                        THEN [panic |-> "field aliases aren't supported",
                              frags |-> frags, stack |-> stack]
                        ELSE [panic |-> "", frags |-> frags,
                              stack |-> <<sel.SelectionSet>> \o rest]
                   [] sel.Kind = "FragmentSpread" ->
                        [panic |-> "", frags |-> frags \cup {sel.Name}, stack |-> rest]
                   [] sel.Kind = "InlineFragment" ->
                        [panic |-> "", frags |-> frags,
                         stack |-> <<sel.SelectionSet>> \o rest]
                   [] OTHER ->
                        [panic |-> "unsupported selection type", frags |-> frags,
                         stack |-> stack]

\* a collector that lets aliased fields pass
CollectFragmentsStep_NoAliasCheck(frags, stack) ==
    LET selSet == Head(stack)
        rest == <<Tail(selSet)>> \o Tail(stack)
    IN  IF selSet = <<>>
        THEN [panic |-> "", frags |-> frags, stack |-> Tail(stack)]
        ELSE LET sel == Head(selSet)
             IN  CASE sel.Kind = "FragmentSpread" ->
                        [panic |-> "", frags |-> frags \cup {sel.Name},
                         stack |-> <<Fragments[sel.Name].SelectionSet>> \o rest]
                   [] OTHER ->
                        [panic |-> "", frags |-> frags,
                         stack |-> <<sel.SelectionSet>> \o rest]

\* a collector that does not descend into a fragment frags already holds
CollectFragmentsStep_VisitedCheck(frags, stack) ==
    LET selSet == Head(stack)
        rest == <<Tail(selSet)>> \o Tail(stack)
    IN  IF selSet = <<>>
        THEN [panic |-> "", frags |-> frags, stack |-> Tail(stack)]
        ELSE LET sel == Head(selSet)
             IN  CASE sel.Kind = "Field" ->
                        IF sel.Name # sel.Alias
                        THEN [panic |-> "field aliases aren't supported",
                              frags |-> frags, stack |-> stack]
                        ELSE [panic |-> "", frags |-> frags,
                              stack |-> <<sel.SelectionSet>> \o rest]
                   [] sel.Kind = "FragmentSpread" ->
                        IF sel.Name \in frags
                        THEN [panic |-> "", frags |-> frags, stack |-> rest]
                        ELSE [panic |-> "", frags |-> frags \cup {sel.Name},
                              stack |-> <<Fragments[sel.Name].SelectionSet>> \o rest]
                   [] sel.Kind = "InlineFragment" ->
                        [panic |-> "", frags |-> frags,
                         stack |-> <<sel.SelectionSet>> \o rest]
                   [] OTHER ->
                        [panic |-> "unsupported selection type", frags |-> frags,
                         stack |-> stack]

CollectFragmentsStep(frags, stack) ==
    LET selSet == Head(stack)
        rest == <<Tail(selSet)>> \o Tail(stack)
    IN  IF selSet = <<>>
        THEN [panic |-> "", frags |-> frags, stack |-> Tail(stack)]
        ELSE LET sel == Head(selSet)
             IN  CASE sel.Kind = "Field" ->
                        IF sel.Name # sel.Alias
                        THEN [panic |-> "field aliases aren't supported",
                              frags |-> frags, stack |-> stack]
                        ELSE [panic |-> "", frags |-> frags,
                              stack |-> <<sel.SelectionSet>> \o rest]
                   [] sel.Kind = "FragmentSpread" ->
                        [panic |-> "", frags |-> frags \cup {sel.Name},
                         stack |-> <<Fragments[sel.Name].SelectionSet>> \o rest]
                   [] sel.Kind = "InlineFragment" ->
                        [panic |-> "", frags |-> frags,
                         stack |-> <<sel.SelectionSet>> \o rest]
                   [] OTHER ->
                        [panic |-> "unsupported selection type", frags |-> frags,
                         stack |-> stack]

\* collectFragments(frags, selSet) run to its return or to its panic
RECURSIVE RunCollectFragments(_, _)
RunCollectFragments(frags, stack) ==
    IF stack = <<>> THEN [panic |-> "", frags |-> frags]
    ELSE LET step == CollectFragmentsStep(frags, stack)
         IN  IF step.panic # "" THEN [panic |-> step.panic, frags |-> step.frags]
             ELSE RunCollectFragments(step.frags, step.stack)

collectFragments(frags, selSet) == RunCollectFragments(frags, <<selSet>>)

\* ---------------------------------------------------------------- formatter
\* formatter.FormatQueryDocument: the text of the operations, then of the
\* fragments, each in the order of its list; text is a sequence of
\* characters
RECURSIVE FormatType(_)
FormatType(t) ==
    (IF t.Elem = <<>> THEN t.NamedType
     ELSE <<"[">> \o FormatType(t.Elem[1]) \o <<"]">>)
    \o (IF t.NonNull THEN <<"!">> ELSE <<>>)

RECURSIVE FormatList(_, _)
FormatList(texts, sep) ==
    IF texts = <<>> THEN <<>>
    ELSE IF Len(texts) = 1 THEN texts[1]
    ELSE texts[1] \o sep \o FormatList(Tail(texts), sep)

FormatArguments(args) ==
    IF args = <<>> THEN <<>>
    ELSE <<"(">>
         \o FormatList([i \in 1..Len(args) |->
                           args[i].Name \o <<":"," ","$">> \o args[i].Variable], <<","," ">>)
         \o <<")">>

FormatVariableDefinitions(variables) ==
    IF variables = <<>> THEN <<>>
    ELSE <<"(">>
         \o FormatList([i \in 1..Len(variables) |->
                           <<"$">> \o variables[i].Variable \o <<":"," ">>
                           \o FormatType(variables[i].Type)], <<","," ">>)
         \o <<")">>

RECURSIVE FormatSelectionSet(_)
FormatSelection(sel) ==
    CASE sel.Kind = "Field" ->
            (IF sel.Alias # <<>> /\ sel.Alias # sel.Name
             THEN sel.Alias \o <<":"," ">> ELSE <<>>)
            \o sel.Name \o FormatArguments(sel.Arguments)
            \o FormatSelectionSet(sel.SelectionSet)
      [] sel.Kind = "FragmentSpread" -> <<".",".",".">> \o sel.Name
      [] sel.Kind = "InlineFragment" ->
            <<".",".","."," ","o","n"," ">> \o sel.Name \o FormatSelectionSet(sel.SelectionSet)

FormatSelectionSet(selSet) ==
    IF selSet = <<>> THEN <<>>
    ELSE <<" ","{"," ">>
         \o FormatList([i \in 1..Len(selSet) |-> FormatSelection(selSet[i])], <<" ">>)
         \o <<" ","}">>

FormatOperationDefinition(op) ==
    <<"q","u","e","r","y"," ">> \o op.Name \o FormatVariableDefinitions(op.VariableDefinitions)
    \o FormatSelectionSet(op.SelectionSet) \o <<"\n">>

FormatFragmentDefinition(frag) ==
    <<"f","r","a","g","m","e","n","t"," ">> \o frag.Name \o <<" ","o","n"," ">> \o frag.TypeCondition
    \o FormatSelectionSet(frag.SelectionSet) \o <<"\n">>

FormatQueryDocument(query) ==
    Join([i \in 1..Len(query.Operations) |->
             FormatOperationDefinition(query.Operations[i])])
    \o Join([i \in 1..Len(query.Fragments) |->
                FormatFragmentDefinition(query.Fragments[i])])

\* -------------------------------------------------------------------- genOp
\* `for frag := range frags`: the orders in which the runtime may hand out
\* the keys of the map
RangeOrders(frags) ==
    {order \in [1..Cardinality(frags) -> frags] :
        \A i, j \in 1..Cardinality(frags) : order[i] = order[j] => i = j}

OpPanic(msg) ==
    [panic |-> TRUE, msg |-> msg, name |-> <<>>, in |-> <<>>, out |-> <<>>,
     stmts |-> <<>>, query |-> <<>>]

\* jen.Id(name).Add(type)
Param(n, type) == [id |-> n, type |-> type]

\* jen.Id("respData").Dot(field) and jen.Id("err")
Ret(n, field) == [id |-> n, dot |-> field]

\* the loop over op.VariableDefinitions: the parameters it appends to in
VarParams(schema, variables) ==
    [i \in 1..Len(variables) |->
        Param(variables[i].Variable, genType(schema, variables[i].Type))]

\* the loop over op.VariableDefinitions: the op.Var statements it appends
\* a loop that binds nothing but the first variable
VarStmts_OnlyFirst(variables) ==
    [i \in 1..(IF variables = <<>> THEN 0 ELSE 1) |->
        [stmt |-> "Var", lit |-> variables[i].Variable, id |-> variables[i].Variable]]

VarStmts(variables) ==
    [i \in 1..Len(variables) |->
        [stmt |-> "Var", lit |-> variables[i].Variable, id |-> variables[i].Variable]]

\* the loop over op.SelectionSet: the type of each selection, a panic for
\* one that is no field
\* a loop that takes the type of the first field selected below the top
\* level, when there is one
SelectionTypes_Subfield(schema, selSet) ==
    [i \in 1..Len(selSet) |->
        IF selSet[i].Kind # "Field" THEN Panic("unsupported selection")
        ELSE IF selSet[i].SelectionSet # <<>>
                  /\ selSet[i].SelectionSet[1].Kind = "Field"
        THEN genType(schema, selSet[i].SelectionSet[1].Definition[1].Type)
        ELSE genType(schema, selSet[i].Definition[1].Type)]

SelectionTypes(schema, selSet) ==
    [i \in 1..Len(selSet) |->
        IF selSet[i].Kind = "Field"
        THEN genType(schema, selSet[i].Definition[1].Type)
        ELSE Panic("unsupported selection")]

\* the loop over op.SelectionSet: dataFields
\* a response record that keeps only the last selection
DataFields_OnlyLast(selSet, typ) ==
    [i \in 1..(IF selSet = <<>> THEN 0 ELSE 1) |->
        Param(Title(selSet[Len(selSet)].Name), typ[Len(selSet)])]

DataFields(selSet, typ) ==
    [i \in 1..Len(selSet) |-> Param(Title(selSet[i].Name), typ[i])]

\* the panic of the first element that has one
FirstPanic(codes) ==
    codes[CHOOSE i \in 1..Len(codes) :
              codes[i].panic /\ \A j \in 1..(i - 1) : ~codes[j].panic].msg

\* genOp after collectFragments has filled frags and the range over frags
\* has built fragList
genOp(schema, op, fragList) ==
    LET query == [Operations |-> <<op>>,
                  Fragments |-> [i \in 1..Len(fragList) |-> Fragments[fragList[i]]]]
        queryStr == FormatQueryDocument(query)
        variables == op.VariableDefinitions
        params == VarParams(schema, variables)
        selSet == op.SelectionSet
        typ == SelectionTypes(schema, selSet)
    IN  IF \E i \in 1..Len(params) : params[i].type.panic
        THEN OpPanic(FirstPanic([i \in 1..Len(params) |-> params[i].type]))
        ELSE IF \E i \in 1..Len(typ) : typ[i].panic
        THEN OpPanic(FirstPanic(typ))
        ELSE [panic |-> FALSE, msg |-> "",
              name |-> Title(op.Name),
              in |-> <<Param(client, Code(<<"Star">>, Qual(gqlclient, <<"C","l","i","e","n","t">>))),
                       Param(ctx, Code(<<>>, Qual("context", <<"C","o","n","t","e","x","t">>)))>>
                     \o params,
              out |-> [i \in 1..Len(selSet) |-> Param(selSet[i].Name, typ[i])]
                      \o <<Param(err, Code(<<>>, Id(<<"e","r","r","o","r">>)))>>,
              stmts |-> <<[stmt |-> "NewOperation", queryStr |-> queryStr]>>
                        \o VarStmts(variables)
                        \o <<[stmt |-> "respData", dataFields |-> DataFields(selSet, typ)],
                             [stmt |-> "Execute"],
                             [stmt |-> "Return",
                              ret |-> [i \in 1..Len(selSet) |->
                                          Ret(respData, Title(selSet[i].Name))]
                                      \o <<Ret(err, <<>>)>>]>>,
              query |-> <<query>>]

\* the operations handed to genOp: the README's fetchTrain, fetchTrain
\* with every selection set of at most MaxSelections selections, and
\* fetchTrain with every list of at most MaxMembers variables, each passed
\* to train as the argument of its name
AtomsOf(parent) ==
    CASE parent = N_Query ->
            {Field(typenameField, typenameField, <<>>, <<>>, NamedType(N_String, TRUE)),
             Field(<<"t">>, typenameField, <<>>, <<>>, NamedType(N_String, TRUE)),
             FragmentSpread(FragQ)}
      [] parent = N_Train ->
            {Field(name, name, <<>>, <<>>, NamedType(N_String, TRUE)),
             Field(<<"n">>, name, <<>>, <<>>, NamedType(N_String, TRUE)),
             FragmentSpread(FragA),
             FragmentSpread(FragB),
             FragmentSpread(FragC)}
      [] parent = N_Bus ->
            {Field(id, id, <<>>, <<>>, NamedType(N_ID, TRUE))}

RECURSIVE SelectionsOfSize(_, _), SelectionSetsOfSize(_, _)
SelectionsOfSize(parent, k) ==
    IF k = 1 THEN AtomsOf(parent)
    ELSE CASE parent = N_Query ->
                {Field(train, train, <<>>, selSet, NamedType(N_Train, TRUE)) :
                    selSet \in SelectionSetsOfSize(N_Train, k - 1)}
                \cup {Field(bus, bus, <<>>, selSet, NamedType(N_Bus, FALSE)) :
                         selSet \in SelectionSetsOfSize(N_Bus, k - 1)}
                \cup {InlineFragment(N_Query, selSet) :
                         selSet \in SelectionSetsOfSize(N_Query, k - 1)}
           [] parent = N_Train ->
                {InlineFragment(N_Train, selSet) :
                    selSet \in SelectionSetsOfSize(N_Train, k - 1)}
           [] parent = N_Bus -> {}

SelectionSetsOfSize(parent, n) ==
    IF n = 0 THEN {<<>>}
    ELSE UNION {{<<sel>> \o rest :
                    sel \in SelectionsOfSize(parent, k),
                    rest \in SelectionSetsOfSize(parent, n - k)} : k \in 1..n}

OpSelectionSets == UNION {SelectionSetsOfSize(N_Query, n) : n \in 1..MaxSelections}

VariableNames == {name, id, maxSpeed}
VariableTypes ==
    {NamedType(N_String, TRUE), NamedType(N_String, FALSE),
     NamedType(N_TrainInput, FALSE), ListType(NamedType(N_Upload, TRUE), TRUE)}
VariableLists ==
    {variables \in SeqsUpTo({VariableDefinition(v, t) :
                                v \in VariableNames, t \in VariableTypes}, MaxMembers) :
        \A i, j \in 1..Len(variables) :
            variables[i].Variable = variables[j].Variable => i = j}

\* { train(v: $v, ...) { maxSpeed } }
ReadmeSelectionSet(variables) ==
    <<Field(train, train,
            [i \in 1..Len(variables) |->
                Argument(variables[i].Variable, variables[i].Variable)],
            <<Field(maxSpeed, maxSpeed, <<>>, <<>>, NamedType(N_Int, TRUE))>>,
            NamedType(N_Train, TRUE))>>

\* query fetchTrain($name: String!) { train(name: $name) { maxSpeed } }
ReadmeOp ==
    OperationDefinition(fetchTrain,
        <<VariableDefinition(name, NamedType(N_String, TRUE))>>,
        ReadmeSelectionSet(<<VariableDefinition(name, NamedType(N_String, TRUE))>>))

OpInputs ==
    {ReadmeOp}
    \cup {OperationDefinition(fetchTrain, <<>>, selSet) : selSet \in OpSelectionSets}
    \cup {OperationDefinition(fetchTrain, variables, ReadmeSelectionSet(variables)) :
             variables \in VariableLists}

\* the query documents handed to main with -q: lists of at most MaxMembers
\* documents of at most MaxMembers operations each, over
\*   query fetchTrain($name: String!) { train(name: $name) { maxSpeed } }
\*   query fetchName { train { ...A } }
\*   query fetchAlias { train { n: name } }
FragOp ==
    OperationDefinition(<<"f","e","t","c","h","N","a","m","e">>, <<>>,
        <<Field(train, train, <<>>, <<FragmentSpread(FragA)>>, NamedType(N_Train, TRUE))>>)
AliasOp ==
    OperationDefinition(<<"f","e","t","c","h","A","l","i","a","s">>, <<>>,
        <<Field(train, train, <<>>,
                <<Field(<<"n">>, name, <<>>, <<>>, NamedType(N_String, TRUE))>>,
                NamedType(N_Train, TRUE))>>)
DocOps == {ReadmeOp, FragOp, AliasOp}

Distinct(a) == \A i, j \in 1..Len(a) : a[i] = a[j] => i = j
Documents == {d \in SeqsUpTo(DocOps, MaxMembers) : d # <<>> /\ Distinct(d)}
QueryInputs == {qs \in SeqsUpTo(Documents, MaxMembers) : Distinct(Join(qs))}

\* `for _, q := range queries { for _, op := range q.Operations {`: the
\* operations in the order the two loops visit them
\* loops that visit the documents last to first
Operations_LastDocumentFirst(queries) == Join(Reverse(queries))

Operations(queries) == Join(queries)

\* the payloads handed to the generated UnmarshalJSON, and the Value the
\* record holds before
TypeNames == {N_Bus, N_Train, N_Map, N_Plane, N_Node, <<>>}
Payloads == [TypeName : TypeNames, shadowOK : BOOLEAN, valueOK : BOOLEAN]
Bases == {[Value |-> <<>>], [Value |-> <<New(N_Bus)>>]}

\* --------------------------------------------------------------- client.go
\* the calls made on one Operation, and the errors of one response
MaxCalls == 2

\* fmt.Sprintf("%v", i) of a list index
Digits == <<"0", "1", "2", "3", "4", "5", "6", "7", "8", "9">>
RECURSIVE Itoa(_)
Itoa(i) ==
    IF i < 10 THEN <<Digits[i + 1]>>
    ELSE Itoa(i \div 10) \o <<Digits[(i % 10) + 1]>>

\* fmt.Sprintf("%v.%v", k, i)
UploadKey(k, i) == k \o <<".">> \o Itoa(i)

\* &Operation{query: query}: vars and uploads are nil maps, which read as
\* empty ones
NewOperation(query) == [query |-> query, vars |-> <<>>, uploads |-> <<>>]

\* an interface{} value: its dynamic type and the Upload values it holds in
\* the order of the (flattened) list, an Upload being a positive number and
\* a nil *Upload being 0
Dynamic(type, elems) == [type |-> type, elems |-> elems]

\* m[key] = value for every entry <<key, value>>; an entry replaces the one
\* m holds under the same key
Store(m, entries) ==
    [key \in DOMAIN m \cup {e[1] : e \in entries} |->
        IF \E e \in entries : e[1] = key
        THEN (CHOOSE e \in entries : e[1] = key)[2]
        ELSE m[key]]

\* `switch v := v.(type)`: the entries the matching case stores in
\* op.uploads; no case matches a list of lists or a value of another type
TypeSwitch(k, v) ==
    CASE v.type = "Upload" -> {<<k, v.elems[1]>>}
      [] v.type = "*Upload" ->
            IF v.elems[1] # 0 THEN {<<k, v.elems[1]>>} ELSE {}
      [] v.type = "[]Upload" ->
            {<<UploadKey(k, i - 1), v.elems[i]>> : i \in 1..Len(v.elems)}
      [] v.type = "[]*Upload" ->
            {<<UploadKey(k, i - 1), v.elems[i]>> :
                i \in {j \in 1..Len(v.elems) : v.elems[j] # 0}}
      [] OTHER -> {}

\* a Var that binds k again instead of panicking
Var_Rebinds(op, k, v) ==
    [panic |-> "",
     op |-> [op EXCEPT !.vars = Store(@, {<<k, v>>}),
                       !.uploads = Store(@, TypeSwitch(k, v))]]

\* (op *Operation) Var(k, v): the operation after the call, or the panic
Var(op, k, v) ==
    IF k \in DOMAIN op.vars
    THEN [panic |-> "gqlclient: called Operation.Var twice", op |-> op]
    ELSE [panic |-> "",
          op |-> [op EXCEPT !.vars = Store(@, {<<k, v>>}),
                            !.uploads = Store(@, TypeSwitch(k, v))]]

\* gqlclient.Error as decoded from the response, and the error fmt.Errorf
\* builds from a format
Error(message) == [type |-> "*gqlclient.Error", Message |-> message]
WrapError(format) == [type |-> "*fmt.wrapError", Message |-> format]

\* what the transport does with one request: the step that fails, if any,
\* and the Errors of the response that was decoded
Steps == {"encode", "request", "do", "decode"}
Environment(fail, errors) == [fail |-> fail, Errors |-> errors]
Environments ==
    {Environment(fail, <<>>) : fail \in Steps}
    \cup {Environment("", errors) :
            errors \in SeqsUpTo({Error("e1"), Error("e2")}, MaxMembers)}

\* an Execute that returns the last of the response's errors
Execute_LastError(op, env) ==
    LET multipart == DOMAIN op.uploads # {}
        Return(sent, e) == [sent |-> sent, multipart |-> multipart, err |-> e]
    IN  CASE env.fail = "encode" ->
               Return(FALSE, <<WrapError("failed to encode request payload: %v")>>)
          [] env.fail = "request" ->
               Return(FALSE, <<WrapError("failed to create HTTP request: %v")>>)
          [] env.fail = "do" ->
               Return(FALSE, <<WrapError("HTTP request failed: %v")>>)
          [] env.fail = "decode" ->
               Return(TRUE, <<WrapError("failed to decode response payload: %v")>>)
          [] OTHER ->
               IF Len(env.Errors) > 0
               THEN Return(TRUE, <<env.Errors[Len(env.Errors)]>>)
               ELSE Return(TRUE, <<>>)

\* (c *Client) Execute(ctx, op, data): the error it returns (<<>> is nil),
\* whether c.http.Do returned a response, and whether the body was a
\* multipart one
Execute(op, env) ==
    LET multipart == DOMAIN op.uploads # {}
        Return(sent, e) == [sent |-> sent, multipart |-> multipart, err |-> e]
    IN  CASE env.fail = "encode" ->
               Return(FALSE, <<WrapError("failed to encode request payload: %v")>>)
          [] env.fail = "request" ->
               Return(FALSE, <<WrapError("failed to create HTTP request: %v")>>)
          [] env.fail = "do" ->
               Return(FALSE, <<WrapError("HTTP request failed: %v")>>)
          [] env.fail = "decode" ->
               Return(TRUE, <<WrapError("failed to decode response payload: %v")>>)
          [] OTHER ->
               IF Len(env.Errors) > 0
               THEN Return(TRUE, <<env.Errors[1]>>)
               ELSE Return(TRUE, <<>>)

\* the keys and the values handed to Var: two variable names and a key that
\* reads like the first element of a list bound to the first name
VarKeys == {<<"a">>, <<"b">>, <<"a", ".", "0">>}
VarValues ==
    {Dynamic("Upload", <<2>>),
     Dynamic("*Upload", <<0>>),
     Dynamic("*Upload", <<1>>),
     Dynamic("[]Upload", <<1, 2>>),
     Dynamic("[]*Upload", <<0, 2>>),
     Dynamic("[][]Upload", <<1>>),
     Dynamic("string", <<>>)}

\* the selection sets collectFragments is called with on its own: spreads
\* of fragments that end, of fragments that spread themselves, and a field
\* whose selection set spreads one of those; MaxStack calls of
\* collectFragments are followed, which is more than a selection set whose
\* fragments end needs
MaxStack == 6
CollectAtoms ==
    {FragmentSpread(f) : f \in {FragA, FragQ, FragC, FragL, FragM}}
    \cup {Field(train, train, <<>>, <<FragmentSpread(FragN)>>,
                NamedType(N_Train, TRUE))}
CollectInputs == SeqsUpTo(CollectAtoms, MaxMembers)

\* ------------------------------------------------------------------- state
VARIABLES schema, omitDeprecated, pc, typeArg, typeRet, defArg, defRet,
          jsonArg, jsonRet, typeNames, file,
          opArg, frags, stack, pass, opRet, opPrev,
          queries, todo,
          operation, calls, execArg, execRet, selArg

flags == <<schema, omitDeprecated>>
typeVars == <<typeArg, typeRet>>
defVars == <<defArg, defRet>>
jsonVars == <<jsonArg, jsonRet>>
mainVars == <<typeNames, file, queries, todo>>
opVars == <<opArg, frags, stack, pass, opRet, opPrev>>
clientVars == <<operation, calls, execArg, execRet>>
collectVars == <<selArg>>

vars == <<schema, omitDeprecated, pc, typeArg, typeRet, defArg, defRet,
          jsonArg, jsonRet, typeNames, file,
          opArg, frags, stack, pass, opRet, opPrev,
          queries, todo,
          operation, calls, execArg, execRet, selArg>>

Init ==
    /\ schema \in Schemas
    /\ omitDeprecated \in BOOLEAN
    /\ pc = "start"
    /\ typeArg = <<>>
    /\ typeRet = <<>>
    /\ defArg = <<>>
    /\ defRet = <<>>
    /\ jsonArg = <<>>
    /\ jsonRet = <<>>
    /\ typeNames = <<>>
    /\ file = <<>>
    /\ opArg = <<>>
    /\ operation = <<>>
    /\ calls = <<>>
    /\ execArg = <<>>
    /\ execRet = <<>>
    /\ selArg = <<>>
    /\ frags = {}
    /\ stack = <<>>
    /\ pass = 0
    /\ opRet = <<>>
    /\ opPrev = <<>>
    /\ queries = <<>>
    /\ todo = <<>>

\* one call genType(schema, t)
GenType ==
    /\ pc = "start"
    /\ \E t \in TypeRefs :
          /\ typeArg' = <<t>>
          /\ typeRet' = <<genType(schema, t)>>
    /\ pc' = "genType"
    /\ UNCHANGED <<flags, clientVars, collectVars, defVars, jsonVars, mainVars, opVars>>

\* one call genDef(schema, def, omitDeprecated)
GenDef ==
    /\ pc = "start"
    /\ \E def \in DefInputs(schema) :
          /\ defArg' = <<def>>
          /\ defRet' = <<genDef(schema, def, omitDeprecated)>>
    /\ pc' = "genDef"
    /\ UNCHANGED <<flags, clientVars, collectVars, typeVars, jsonVars, mainVars, opVars>>

\* the UnmarshalJSON generated for an interface or union of the schema
\* decodes one payload
Decode ==
    /\ pc = "genDef"
    /\ ~defRet[1].panic /\ ~defRet[1].nil
    /\ defArg[1].Kind \in {Interface, Union}
    /\ defArg[1] = schema.Types[defArg[1].Name]
    /\ \E base \in Bases, b \in Payloads :
          /\ jsonArg' = <<base, b>>
          /\ jsonRet' = <<UnmarshalJSON(defRet[1].items[3], base, b)>>
    /\ pc' = "decode"
    /\ UNCHANGED <<flags, clientVars, collectVars, typeVars, defVars, mainVars, opVars>>

\* main up to sort.Strings(typeNames): the queries are loaded, the file is
\* new, the names of the types to generate are collected and sorted
MainStart ==
    /\ pc = "start"
    /\ \E qs \in QueryInputs :
          /\ queries' = qs
          /\ todo' = Operations(qs)
    /\ \E order \in TypeMapOrders(schema) :
          typeNames' = TypeNamesOf(schema, order)
    /\ file' = <<>>
    /\ pc' = "main"
    /\ UNCHANGED <<flags, clientVars, collectVars, typeVars, defVars, jsonVars, opVars>>

\* one iteration of main's loop over typeNames: the definition, when genDef
\* returns one, then one marker method per interface or union the type is
\* a possible type of
MainType ==
    /\ pc = "main"
    /\ typeNames # <<>>
    /\ LET def == schema.Types[Head(typeNames)]
           stmt == genDef(schema, def, omitDeprecated)
           markers == Markers(schema, def)
       IN  IF stmt.panic \/ \E i \in 1..Len(markers) : markers[i].recv.panic
           THEN /\ pc' = "panic"
                /\ UNCHANGED mainVars
           ELSE /\ file' = file
                            \o (IF stmt.nil THEN <<>>
                                ELSE <<[item |-> "Def", name |-> def.Name, stmt |-> stmt]>>)
                            \o markers
                /\ typeNames' = Tail(typeNames)
                /\ pc' = IF Tail(typeNames) = <<>> THEN "types" ELSE "main"
                /\ UNCHANGED <<queries, todo>>
    /\ UNCHANGED <<flags, clientVars, collectVars, typeVars, defVars, jsonVars, opVars>>

\* one iteration of main's loops over the operations of the queries:
\* f.Add(genOp(schema, op)); a panic of genOp ends main
MainOp ==
    /\ pc = "types"
    /\ todo # <<>>
    /\ LET collected == collectFragments({}, Head(todo).SelectionSet)
       IN  \E fragList \in RangeOrders(collected.frags) :
              LET fn == genOp(schema, Head(todo), fragList)
              IN  IF collected.panic # "" \/ fn.panic
                  THEN /\ pc' = "panic"
                       /\ UNCHANGED mainVars
                  ELSE /\ file' = Append(file, [item |-> "Op", name |-> fn.name,
                                                stmt |-> fn])
                       /\ todo' = Tail(todo)
                       /\ UNCHANGED <<pc, typeNames, queries>>
    /\ UNCHANGED <<flags, clientVars, collectVars, typeVars, defVars, jsonVars, opVars>>

\* f.Save(outputFilename)
MainSave ==
    /\ pc = "types"
    /\ todo = <<>>
    /\ pc' = "saved"
    /\ UNCHANGED <<flags, clientVars, collectVars, typeVars, defVars, jsonVars, mainVars, opVars>>

\* genOp(schema, op) up to the call of collectFragments(frags, op.SelectionSet)
GenOpStart ==
    /\ pc = "start"
    /\ \E o \in OpInputs :
          /\ opArg' = <<o>>
          /\ stack' = <<o.SelectionSet>>
    /\ frags' = {}
    /\ pass' = 1
    /\ pc' = "collect"
    /\ UNCHANGED <<flags, clientVars, collectVars, typeVars, defVars, jsonVars, mainVars, opRet, opPrev>>

\* collectFragments visits one selection, or one of its calls returns; a
\* panic ends genOp
Collect ==
    /\ pc = "collect"
    /\ stack # <<>>
    /\ LET step == CollectFragmentsStep(frags, stack)
       IN  IF step.panic # ""
           THEN /\ opRet' = <<OpPanic(step.panic)>>
                /\ pc' = "genOp"
                /\ UNCHANGED <<frags, stack>>
           ELSE /\ frags' = step.frags
                /\ stack' = step.stack
                /\ UNCHANGED <<pc, opRet>>
    /\ UNCHANGED <<flags, clientVars, collectVars, typeVars, defVars, jsonVars, mainVars, opArg, pass, opPrev>>

\* collectFragments called once more with the frags it has filled and the
\* same selection set
CollectAgain ==
    /\ pc = "collect"
    /\ stack = <<>>
    /\ pass = 1
    /\ opPrev = <<>>
    /\ stack' = <<opArg[1].SelectionSet>>
    /\ pass' = 2
    /\ UNCHANGED <<flags, clientVars, collectVars, pc, typeVars, defVars, jsonVars, mainVars, opArg, frags, opRet, opPrev>>

\* genOp from the return of collectFragments to its own: the range over
\* frags builds fragList in an order of the runtime's choosing
GenOpFinish ==
    /\ pc = "collect"
    /\ stack = <<>>
    /\ pass = 1
    /\ \E fragList \in RangeOrders(frags) :
          opRet' = <<genOp(schema, opArg[1], fragList)>>
    /\ pc' = "genOp"
    /\ UNCHANGED <<flags, clientVars, collectVars, typeVars, defVars, jsonVars, mainVars, opArg, frags, stack, pass, opPrev>>

\* genOp called once more for the operation it has generated
GenOpAgain ==
    /\ pc = "genOp"
    /\ opPrev = <<>>
    /\ ~opRet[1].panic
    /\ opPrev' = opRet
    /\ opRet' = <<>>
    /\ frags' = {}
    /\ stack' = <<opArg[1].SelectionSet>>
    /\ pc' = "collect"
    /\ UNCHANGED <<flags, clientVars, collectVars, typeVars, defVars, jsonVars, mainVars, opArg, pass>>

\* ---------------------------------------------------------------- client
\* gqlclient.NewOperation(query)
CallNewOperation ==
    /\ pc = "start"
    /\ operation' = <<NewOperation("query { train { name } }")>>
    /\ calls' = <<>>
    /\ pc' = "op"
    /\ UNCHANGED <<flags, typeVars, defVars, jsonVars, mainVars, opVars,
                   collectVars, execArg, execRet>>

\* op.Var(k, v): calls keeps the arguments of every call, the one that
\* panics included
CallVar ==
    /\ pc = "op"
    /\ Len(calls) < MaxCalls
    /\ \E k \in VarKeys, v \in VarValues :
          LET r == Var(operation[1], k, v)
          IN  /\ operation' = <<r.op>>
              /\ calls' = Append(calls, [k |-> k, v |-> v])
              /\ pc' = IF r.panic # "" THEN "varPanic" ELSE "op"
    /\ UNCHANGED <<flags, typeVars, defVars, jsonVars, mainVars, opVars,
                   collectVars, execArg, execRet>>

\* client.Execute(ctx, op, data) against a transport of any behaviour
CallExecute ==
    /\ pc = "op"
    /\ \E env \in Environments :
          /\ execArg' = <<env>>
          /\ execRet' = <<Execute(operation[1], env)>>
    /\ pc' = "executed"
    /\ UNCHANGED <<flags, typeVars, defVars, jsonVars, mainVars, opVars,
                   collectVars, operation, calls>>

\* ------------------------------------------- collectFragments on its own
\* collectFragments(make(map[string]struct{}), selSet)
CallCollectFragments ==
    /\ pc = "start"
    /\ \E selSet \in CollectInputs :
          /\ selArg' = <<selSet>>
          /\ stack' = <<selSet>>
    /\ frags' = {}
    /\ pc' = "collectFragments"
    /\ UNCHANGED <<flags, typeVars, defVars, jsonVars, mainVars, clientVars,
                   opArg, pass, opRet, opPrev>>

\* the innermost call visits one selection, or returns to its caller
CollectFragmentsRun ==
    /\ pc = "collectFragments"
    /\ stack # <<>>
    /\ Len(stack) <= MaxStack
    /\ LET step == CollectFragmentsStep(frags, stack)
       IN  IF step.panic # ""
           THEN /\ pc' = "collectPanic"
                /\ UNCHANGED <<frags, stack>>
           ELSE /\ frags' = step.frags
                /\ stack' = step.stack
                /\ UNCHANGED pc
    /\ UNCHANGED <<flags, typeVars, defVars, jsonVars, mainVars, clientVars,
                   collectVars, opArg, pass, opRet, opPrev>>

\* the outermost call returns
CollectFragmentsReturn ==
    /\ pc = "collectFragments"
    /\ stack = <<>>
    /\ pc' = "collected"
    /\ UNCHANGED <<flags, typeVars, defVars, jsonVars, mainVars, clientVars,
                   collectVars, opVars>>

Next ==
    \/ GenType \/ GenDef \/ Decode
    \/ MainStart \/ MainType \/ MainOp \/ MainSave
    \/ GenOpStart \/ Collect \/ CollectAgain \/ GenOpFinish \/ GenOpAgain
    \/ CallNewOperation \/ CallVar \/ CallExecute
    \/ CallCollectFragments \/ CollectFragmentsRun \/ CollectFragmentsReturn

Spec == Init /\ [][Next]_vars

\* a call of collectFragments that can take its next step takes it: the
\* generator runs it on its one goroutine without waiting for anything
CollectSpec ==
    /\ Init
    /\ [][Next]_vars
    /\ WF_vars(CollectFragmentsRun)
    /\ WF_vars(CollectFragmentsReturn)

\* ------------------------------------------------------ genType properties
\* number of pointer layers / list layers of a type expression
RECURSIVE Count(_, _)
Count(prefix, op) ==
    IF prefix = <<>> THEN 0
    ELSE (IF Head(prefix) = op THEN 1 ELSE 0) + Count(Tail(prefix), op)

Pointers(code) == Count(code.prefix, "Star")
Lists(code) == Count(code.prefix, "Index")

\* genType has returned a type expression for the TypeRef typeArg[1]
Mapped == pc = "genType" /\ ~typeRet[1].panic

\* the definition the leaf of the mapped TypeRef resolves to
LeafDef == schema.Types[Leaf(typeArg[1]).NamedType]

ConvenienceNames == {N_Time, N_Map, N_Upload, N_Any}
StandardNames == {N_Int, N_Float, N_String, N_Boolean, N_ID}
ConvenienceScalar(def) == def.Kind = Scalar /\ def.Name \in ConvenienceNames

\* C1 (as claimed): a TypeRef whose leaf is one of the convenience scalars
\* Time, Map, Upload, Any is mapped without any pointer layer, at any list
\* depth and whether or not the leaf is NonNull.
C1_ConvenienceNeverPointer ==
    Mapped /\ ConvenienceScalar(LeafDef) => Pointers(typeRet[1]) = 0

\* C1 (amended): the scalars Time, Map and Any are mapped without any pointer
\* layer at any list depth and for either nullability; Upload is mapped
\* without a pointer layer exactly when its leaf is NonNull, a nullable
\* Upload leaf gets one pointer layer.
C1_ConvenienceNoPointerButUpload ==
    Mapped /\ ConvenienceScalar(LeafDef) =>
        Pointers(typeRet[1]) =
            (IF LeafDef.Name = N_Upload /\ ~Leaf(typeArg[1]).NonNull THEN 1 ELSE 0)

\* C1 witness: the nullable element of a list of Time values is mapped
\* without a pointer
C1_Witness ==
    /\ Mapped
    /\ typeArg[1] = ListType(NamedType(N_Time, FALSE), TRUE)
    /\ LeafDef.Kind = Scalar
    /\ typeRet[1].prefix = <<"Index">>

\* C2 (as claimed): a leaf that is not NonNull and not a convenience scalar
\* (the built-in scalars Int, Float, String, Boolean, ID included) is wrapped
\* in exactly one pointer layer.
C2_NullableOnePointer ==
    Mapped /\ ~Leaf(typeArg[1]).NonNull /\ ~ConvenienceScalar(LeafDef) =>
        Pointers(typeRet[1]) = 1

\* C2 (amended): a leaf that is not NonNull and is not named ID, Time, Map
\* or Any is wrapped in exactly one pointer layer; a nullable leaf of one of
\* these four names gets none.
C2_NullableOnePointerButZeroValued ==
    Mapped /\ ~Leaf(typeArg[1]).NonNull =>
        Pointers(typeRet[1]) = (IF LeafDef.Name \in {N_ID, N_Time, N_Map, N_Any} THEN 0 ELSE 1)

\* C2 witness: the nullable String element of a list got its pointer
C2_Witness ==
    /\ Mapped
    /\ typeArg[1] = ListType(NamedType(N_String, FALSE), FALSE)
    /\ typeRet[1].prefix = <<"Index", "Star">>

\* C3: a toplevel NonNull reference is mapped with exactly one pointer layer
\* when the leaf definition is an Object or Interface, and with none when it
\* is a Scalar, Enum, InputObject or Union.
C3_ToplevelNonNull ==
    Mapped /\ typeArg[1].Elem = <<>> /\ typeArg[1].NonNull =>
        /\ LeafDef.Kind \in {Object, Interface} => Pointers(typeRet[1]) = 1
        /\ LeafDef.Kind \in {Scalar, Enum, InputObject, Union} => Pointers(typeRet[1]) = 0

\* C3 witness: the toplevel reference Node! to an interface got one pointer
C3_Witness ==
    /\ Mapped
    /\ typeArg[1] = NamedType(N_Node, TRUE)
    /\ typeRet[1].prefix = <<"Star">>

\* C4: the mapped type of List(t) has exactly one more list layer than the
\* mapped type of t, and the mapped type of NonNull(t) never has more
\* pointer layers than the mapped type of t.
C4_ListAndNonNullLayers ==
    Mapped =>
        /\ typeArg[1].Elem # <<>> =>
              Lists(typeRet[1]) = Lists(genType(schema, typeArg[1].Elem[1])) + 1
        /\ typeArg[1].NonNull =>
              Pointers(typeRet[1]) <=
                  Pointers(genType(schema, [typeArg[1] EXCEPT !.NonNull = FALSE]))

\* C5: genType panics exactly when the leaf name is absent from the schema's
\* type map or names a built-in definition other than Int, Float, String,
\* Boolean, ID.
C5_PanicsOnUnknownOrBuiltIn ==
    pc = "genType" =>
        (typeRet[1].panic <=>
            LET n == Leaf(typeArg[1]).NamedType
            IN  \/ n \notin DOMAIN schema.Types
                \/ schema.Types[n].BuiltIn /\ n \notin StandardNames)

\* C5 witness: a list of the introspection type __Type made genType panic
C5_Witness ==
    /\ pc = "genType"
    /\ typeArg[1] = ListType(NamedType(N___Type, TRUE), FALSE)
    /\ typeRet[1].panic

\* ------------------------------------------------------- genDef properties
\* genDef has returned a statement for the definition defArg[1]
Generated == pc = "genDef" /\ ~defRet[1].panic /\ ~defRet[1].nil

\* the member carries the deprecation marker
Deprecated(member) ==
    \E i \in 1..Len(member.Directives) : member.Directives[i].Name = deprecated

HasFields(def) == def.Kind \in {Object, InputObject, Interface}

\* the fields of the generated record that come from schema Fields (the
\* Value field of an interface, tagged "-", does not)
FromSchema(entry) == entry.item = "Field" /\ entry.tag.json # <<"-">>
RecordFields == SelectSeq(defRet[1].items[1].fields, FromSchema)

\* the constants of the generated enum
EnumConsts == defRet[1].items[3].defs

\* the Fields the generator does not skip: those that are not deprecated
\* under the filter and are not named __schema or __type
Kept(field) ==
    /\ ~(omitDeprecated /\ Deprecated(field))
    /\ field.Name \notin {schemaField, typeField}
KeptFields == SelectSeq(defArg[1].Fields, Kept)

\* C6: for an Object or InputObject the record has one field per schema
\* Field (of those not skipped as deprecated or reserved), in schema order,
\* each tagged with the GraphQL field name, and the tag carries omitempty
\* if and only if the field's outermost TypeRef is not NonNull.
C6_RecordFields ==
    Generated /\ defArg[1].Kind \in {Object, InputObject} =>
        /\ Len(RecordFields) = Len(KeptFields)
        /\ \A i \in 1..Len(RecordFields) :
              LET tag == RecordFields[i].tag.json
                  field == KeptFields[i]
              IN  /\ tag \in {field.Name, field.Name \o omitempty}
                  /\ tag = field.Name \o omitempty <=> ~field.Type.NonNull

\* C6 witness: a record with a NonNull field followed by a nullable list of
\* NonNull elements, the second one tagged omitempty
C6_Witness ==
    /\ Generated
    /\ defArg[1].Kind = InputObject
    /\ Len(defArg[1].Fields) = 2
    /\ defArg[1].Fields[1].Type = NamedType(N_String, TRUE)
    /\ defArg[1].Fields[2].Type = ListType(NamedType(N_String, TRUE), FALSE)
    /\ Len(RecordFields) = 2
    /\ RecordFields[1].tag.json = name
    /\ RecordFields[2].tag.json = name \o omitempty

\* C7 (as claimed): a schema Field whose name starts with a double
\* underscore is omitted from the generated record, whatever the rest of
\* its name is.
C7_DoubleUnderscoreOmitted ==
    Generated /\ HasFields(defArg[1]) =>
        \A i \in 1..Len(RecordFields) : ~HasDoubleUnderscore(RecordFields[i].tag.json)

\* C7 (amended): the schema Fields named __schema or __type are omitted
\* from the generated record; a Field with any other name, a double
\* underscore name such as __typename included, is emitted unless the
\* deprecation filter drops it.
C7_SchemaAndTypeOmitted ==
    Generated /\ HasFields(defArg[1]) =>
        /\ \A i \in 1..Len(RecordFields) :
              RecordFields[i].id \notin {schemaField, typeField}
        /\ \A j \in 1..Len(defArg[1].Fields) :
              LET field == defArg[1].Fields[j]
              IN  /\ field.Name \notin {schemaField, typeField}
                  /\ ~(omitDeprecated /\ Deprecated(field))
                  => \E i \in 1..Len(RecordFields) : RecordFields[i].id = Title(field.Name)

\* C7 witness: of the fields __type and name of an interface only name is
\* in the record
C7_Witness ==
    /\ Generated
    /\ defArg[1].Kind = Interface
    /\ Len(defArg[1].Fields) = 2
    /\ defArg[1].Fields[1].Name = typeField
    /\ defArg[1].Fields[2].Name = name
    /\ Len(RecordFields) = 1
    /\ RecordFields[1].id = Title(name)

\* C8: within one Enum, two distinct EnumValue names yield different
\* constant identifiers.
C8_EnumIdentifiersInjective ==
    Generated /\ defArg[1].Kind = Enum =>
        \A i, j \in 1..Len(EnumConsts) :
            EnumConsts[i].lit # EnumConsts[j].lit => EnumConsts[i].id # EnumConsts[j].id

\* the constant identifiers genDef emits for an enum of the schema
ConstIds(def) ==
    LET defs == genDef(schema, def, omitDeprecated).items[3].defs
    IN  {defs[i].id : i \in 1..Len(defs)}

\* C9: across the Enum definitions of one schema (the declared ones, which
\* the driver generates) no two constants share an identifier.
C9_EnumIdentifiersGloballyUnique ==
    Generated /\ defArg[1].Kind = Enum /\ ~defArg[1].BuiltIn =>
        \A n \in DOMAIN schema.Types :
            /\ schema.Types[n].Kind = Enum
            /\ ~schema.Types[n].BuiltIn
            /\ n # defArg[1].Name
            =>
                ConstIds(schema.Types[n]) \cap {EnumConsts[i].id : i \in 1..Len(EnumConsts)} = {}

\* the names of the members that must be emitted: with the filter all that
\* carry no deprecation marker, without it all
Surviving(member) == ~(omitDeprecated /\ Deprecated(member))
NotReserved(field) == field.Name \notin {schemaField, typeField}
SurvivingValues == SelectSeq(defArg[1].EnumValues, Surviving)
SurvivingFields == SelectSeq(SelectSeq(defArg[1].Fields, NotReserved), Surviving)

\* C10: with the deprecation filter enabled no Enum declaration has a
\* constant for a deprecated EnumValue and no Object, InputObject or
\* Interface record has a field for a deprecated Field; with the filter
\* disabled every such member is emitted (reserved fields aside).
C10_DeprecationFilter ==
    Generated =>
        /\ defArg[1].Kind = Enum =>
              /\ Len(EnumConsts) = Len(SurvivingValues)
              /\ \A i \in 1..Len(EnumConsts) : EnumConsts[i].lit = SurvivingValues[i].Name
        /\ HasFields(defArg[1]) =>
              /\ Len(RecordFields) = Len(SurvivingFields)
              /\ \A i \in 1..Len(RecordFields) :
                    RecordFields[i].id = Title(SurvivingFields[i].Name)

\* C10 witness: with the filter enabled, an enum whose first value is
\* deprecated and whose second is not has a constant for the second only
C10_Witness ==
    /\ Generated
    /\ omitDeprecated
    /\ defArg[1].Kind = Enum
    /\ Len(defArg[1].EnumValues) = 2
    /\ Deprecated(defArg[1].EnumValues[1])
    /\ ~Deprecated(defArg[1].EnumValues[2])
    /\ Len(EnumConsts) = 1
    /\ EnumConsts[1].lit = defArg[1].EnumValues[2].Name

\* --------------------------------------------- generated decode properties
\* the generated UnmarshalJSON of D has run on a payload that encoding/json
\* accepts for the shadow record
Decoded == pc = "decode" /\ jsonArg[2].shadowOK
D == defArg[1]
BaseBefore == jsonArg[1]
Payload == jsonArg[2]
IsPossibleType(n) ==
    \E i \in 1..Len(GetPossibleTypes(schema, D)) : GetPossibleTypes(schema, D)[i] = n

\* C11: a payload whose __typename names a possible type T of D sets Value
\* to a fresh instance of exactly T, into which the whole payload is decoded
\* a second time; the dispatch raises no error (the only error is the one
\* of that second decoding).
C11_DispatchOnTypename ==
    Decoded /\ IsPossibleType(Payload.TypeName) =>
        /\ Len(jsonRet[1].Value) = 1
        /\ jsonRet[1].Value[1].type = Payload.TypeName
        /\ jsonRet[1].Value[1].from = (IF Payload.valueOK THEN <<Payload>> ELSE <<>>)
        /\ jsonRet[1].error = (IF Payload.valueOK THEN NoError ELSE JSONError)

\* C11 witness: a Train payload decoded for the union Vehicle, whose record
\* held a Bus before
C11_Witness ==
    /\ Decoded
    /\ D.Name = N_Vehicle
    /\ Payload.TypeName = N_Train /\ Payload.valueOK
    /\ BaseBefore.Value = <<New(N_Bus)>>
    /\ jsonRet[1].Value = <<[type |-> N_Train, from |-> <<Payload>>]>>
    /\ jsonRet[1].error = NoError

\* C12: a payload without __typename yields a decode error for a Union, and
\* for an Interface a result without error that leaves Value as it was.
C12_MissingTypename ==
    Decoded /\ Payload.TypeName = <<>> =>
        /\ jsonRet[1].Value = BaseBefore.Value
        /\ D.Kind = Union => jsonRet[1].error = [err |-> "missing __typename field", arg |-> <<>>]
        /\ D.Kind = Interface => jsonRet[1].error = NoError

\* C12 witness: the interface Node decoded a payload without __typename
\* into a fresh record and returned no error
C12_Witness ==
    /\ Decoded
    /\ D.Kind = Interface
    /\ Payload.TypeName = <<>>
    /\ BaseBefore.Value = <<>>
    /\ jsonRet[1].Value = <<>>
    /\ jsonRet[1].error = NoError

\* C13: a payload whose __typename is not empty and names no possible type
\* of D yields an error that names that __typename, returned as an ordinary
\* error, and leaves Value as it was.
C13_UnknownTypename ==
    Decoded /\ Payload.TypeName # <<>> /\ ~IsPossibleType(Payload.TypeName) =>
        /\ jsonRet[1].error = [err |-> "unknown __typename %q", arg |-> Payload.TypeName]
        /\ jsonRet[1].Value = BaseBefore.Value
        /\ jsonRet[1].returned

\* C13 witness: the union Vehicle was handed a Plane
C13_Witness ==
    /\ Decoded
    /\ D.Name = N_Vehicle
    /\ Payload.TypeName = N_Plane
    /\ BaseBefore.Value = <<>>
    /\ jsonRet[1].error.arg = N_Plane
    /\ jsonRet[1].Value = <<>>

\* ---------------------------------------------------------- main properties
\* main has emitted every type of the schema
TypesEmitted == pc = "types"

\* the file defines the type
Defines(n) == \E i \in 1..Len(file) : file[i].item = "Def" /\ file[i].name = n

\* the interfaces and unions the file defines a marker capability for
Capabilities ==
    {n \in DOMAIN schema.Types :
        schema.Types[n].Kind \in {Interface, Union} /\ Defines(n)}

\* the file gives the method to the receiver
HasMarker(recv, method) ==
    \E i \in 1..Len(file) :
        file[i].item = "Marker" /\ file[i].recv = recv /\ file[i].method = method

\* C14: for every interface or union D the file defines and every possible
\* type T of D, the file has the method isD on *T, the form of the value the
\* decode routine of D stores in Value for T.
C14_MarkerOnEveryPossibleType ==
    TypesEmitted =>
        \A n \in Capabilities :
            \A i \in 1..Len(GetPossibleTypes(schema, schema.Types[n])) :
                HasMarker(Code(<<"Star">>, Id(GetPossibleTypes(schema, schema.Types[n])[i])),
                          <<"i","s">> \o n)

\* --------------------------------------------------- operation properties
\* a call of collectFragments(frags, opArg[1].SelectionSet) has returned
Collected == pc = "collect" /\ stack = <<>>

\* genOp has returned, or panicked
OpDone == pc = "genOp" /\ opRet # <<>>
OpGenerated == OpDone /\ ~opRet[1].panic

\* the fragments a selection set spreads, itself or in the selection sets
\* of its fields and inline fragments
RECURSIVE SpreadsIn(_)
SpreadsIn(selSet) ==
    UNION {IF selSet[i].Kind = "FragmentSpread"
           THEN {selSet[i].Name}
           ELSE SpreadsIn(selSet[i].SelectionSet) : i \in 1..Len(selSet)}

\* the least set that holds S and what the fragments in it spread
RECURSIVE Closure(_)
Closure(S) ==
    LET T == S \cup UNION {SpreadsIn(Fragments[f].SelectionSet) : f \in S}
    IN  IF T = S THEN S ELSE Closure(T)

Reachable(selSet) == Closure(SpreadsIn(selSet))

\* C15: when collectFragments returns, frags is exactly the set of fragments
\* reachable from the operation's selection set through spreads, after the
\* first call and after a second call into the same set; the document built
\* from it lists each of them once.
C15_FragmentClosure ==
    /\ Collected => frags = Reachable(opArg[1].SelectionSet)
    /\ OpGenerated =>
          LET fragList == opRet[1].query[1].Fragments
          IN  /\ {fragList[i].Name : i \in 1..Len(fragList)}
                    = Reachable(opArg[1].SelectionSet)
              /\ Len(fragList) = Cardinality(Reachable(opArg[1].SelectionSet))

\* C15 witness: `{ train { ...A ...A } }` collected twice into the same set,
\* which holds A and the B that A spreads
C15_Witness ==
    /\ Collected
    /\ pass = 2
    /\ opArg[1].SelectionSet =
          <<Field(train, train, <<>>, <<FragmentSpread(FragA), FragmentSpread(FragA)>>,
                  NamedType(N_Train, TRUE))>>
    /\ frags = {FragA, FragB}

\* C16: generating the same operation twice yields the same result: the
\* same document, the same query text, the same declaration.
C16_SameOperationSameOutput ==
    OpDone /\ opPrev # <<>> => opRet = opPrev

\* the statements of one kind in the generated body
StmtsOf(kind) == SelectSeq(opRet[1].stmts, LAMBDA st : st.stmt = kind)

\* C17: the parameters of the generated function are client, ctx and then
\* one per VariableDefinition, in declaration order, named after the
\* variable and typed by genType of its type; the body binds each variable
\* once, by name, in the same order.
C17_ParametersAndBindings ==
    OpGenerated =>
        LET variables == opArg[1].VariableDefinitions
            in == opRet[1].in
        IN  /\ Len(in) = 2 + Len(variables)
            /\ in[1].id = client
            /\ in[2].id = ctx
            /\ \A i \in 1..Len(variables) :
                  in[2 + i] = Param(variables[i].Variable,
                                    genType(schema, variables[i].Type))
            /\ StmtsOf("Var") =
                  [i \in 1..Len(variables) |->
                      [stmt |-> "Var", lit |-> variables[i].Variable,
                       id |-> variables[i].Variable]]

\* C17 witness: fetchTrain($id: TrainInput, $name: [Upload!]!)
C17_Witness ==
    /\ OpGenerated
    /\ opArg[1].VariableDefinitions =
          <<VariableDefinition(id, NamedType(N_TrainInput, FALSE)),
            VariableDefinition(name, ListType(NamedType(N_Upload, TRUE), TRUE))>>
    /\ Len(opRet[1].in) = 4
    /\ Len(StmtsOf("Var")) = 2

\* the response record, the results and the return statement are one per
\* top-level selection, in order, typed by genType of the field's type, the
\* results followed by the error
ResponseShape ==
    LET selSet == opArg[1].SelectionSet
        typ == [i \in 1..Len(selSet) |->
                   genType(schema, selSet[i].Definition[1].Type)]
    IN  /\ StmtsOf("respData")[1].dataFields =
              [i \in 1..Len(selSet) |-> Param(Title(selSet[i].Name), typ[i])]
        /\ opRet[1].out =
              [i \in 1..Len(selSet) |-> Param(selSet[i].Name, typ[i])]
              \o <<Param(err, Code(<<>>, Id(<<"e","r","r","o","r">>)))>>
        /\ StmtsOf("Return")[1].ret =
              [i \in 1..Len(selSet) |-> Ret(respData, Title(selSet[i].Name))]
              \o <<Ret(err, <<>>)>>

AllFields(selSet) == \A i \in 1..Len(selSet) : selSet[i].Kind = "Field"
AliasPanic == opRet[1].panic /\ opRet[1].msg = "field aliases aren't supported"

ReadmeGenerated == OpGenerated /\ opArg[1] = ReadmeOp

ReadmeParameters ==
    /\ Len(opRet[1].in) = 3
    /\ opRet[1].in[1].id = client
    /\ opRet[1].in[2].id = ctx
    /\ opRet[1].in[3] = Param(name, Code(<<>>, Prim("String")))
    /\ StmtsOf("Var") = <<[stmt |-> "Var", lit |-> name, id |-> name]>>

\* C19 as stated: the function generated for fetchTrain takes client, ctx
\* and the string name, binds name, and returns a 32-bit integer and an
\* error.
C19_ReadmeOpReturnsInt32 ==
    ReadmeGenerated =>
        /\ ReadmeParameters
        /\ Len(opRet[1].out) = 2
        /\ opRet[1].out[1].type = Code(<<>>, Prim("Int32"))
        /\ opRet[1].out[2].id = err

\* C19 amended: the function generated for fetchTrain takes client, ctx and
\* the string name, binds name, and returns the top-level field train, whose
\* type has the generated record Train as its leaf, and an error.
C19_ReadmeOpReturnsTrain ==
    ReadmeGenerated =>
        /\ ReadmeParameters
        /\ Len(opRet[1].out) = 2
        /\ opRet[1].out[1].id = train
        /\ opRet[1].out[1].type.gen = Id(N_Train)
        /\ Lists(opRet[1].out[1].type) = 0
        /\ opRet[1].out[2].id = err

\* C19 witness: fetchTrain generated, FetchTrain by name
C19_Witness ==
    /\ ReadmeGenerated
    /\ opRet[1].name = <<"F","e","t","c","h","T","r","a","i","n">>
    /\ opRet[1].out[1].id = train

\* C20: a function generated for an operation whose one top-level selection
\* is a field of Object type returns the record by value, without pointer.
C20_ObjectReturnedByValue ==
    /\ OpGenerated
    /\ Len(opArg[1].SelectionSet) = 1
    /\ opArg[1].SelectionSet[1].Definition[1].Type.Elem = <<>>
    /\ schema.Types[opArg[1].SelectionSet[1].Definition[1].Type.NamedType].Kind = Object
    => Pointers(opRet[1].out[1].type) = 0

\* the selection set has a field with an alias other than its name, itself
\* or in the selection sets of its fields and inline fragments
RECURSIVE HasAlias(_)
HasAlias(selSet) ==
    \E i \in 1..Len(selSet) :
        \/ selSet[i].Kind = "Field" /\ selSet[i].Alias # selSet[i].Name
        \/ selSet[i].Kind # "FragmentSpread" /\ HasAlias(selSet[i].SelectionSet)

\* an aliased field is in the operation's selection set or in a fragment
\* reachable from it
AliasReachable(selSet) ==
    \/ HasAlias(selSet)
    \/ \E f \in Reachable(selSet) : HasAlias(Fragments[f].SelectionSet)

\* C21: an operation with an aliased field, at the top level or at any
\* depth reached through fields, inline fragments and spread fragments,
\* makes genOp panic with "field aliases aren't supported"; it returns no
\* declaration, no parameter, no result and no statement.
C21_AliasIsFatal ==
    OpDone /\ AliasReachable(opArg[1].SelectionSet) =>
        /\ AliasPanic
        /\ opRet[1] = OpPanic("field aliases aren't supported")
        /\ opRet[1].in = <<>> /\ opRet[1].out = <<>> /\ opRet[1].stmts = <<>>

\* C21 witness: `{ train { ...C } }`, whose alias is in the spread fragment,
\* has panicked
C21_Witness ==
    /\ OpDone
    /\ opArg[1].SelectionSet =
          <<Field(train, train, <<>>, <<FragmentSpread(FragC)>>,
                  NamedType(N_Train, TRUE))>>
    /\ frags = {FragC}
    /\ AliasPanic

RECURSIVE ListFlagsCleared(_)
ListFlagsCleared(t) ==
    IF t.Elem = <<>> THEN t
    ELSE ListType(ListFlagsCleared(t.Elem[1]), FALSE)

\* the depth of list nesting of a TypeRef
RECURSIVE Depth(_)
Depth(t) == IF t.Elem = <<>> THEN 0 ELSE 1 + Depth(t.Elem[1])

\* C30: the mapped type is one list wrapper per List layer, then at most
\* one pointer, then the leaf type; the NonNull flags of the List layers do
\* not influence it.
C30_ShapeOfMappedType ==
    Mapped =>
        /\ Lists(typeRet[1]) = Depth(typeArg[1])
        /\ Pointers(typeRet[1]) <= 1
        /\ typeRet[1].prefix =
              [i \in 1..(Lists(typeRet[1]) + Pointers(typeRet[1])) |->
                  IF i <= Lists(typeRet[1]) THEN "Index" ELSE "Star"]
        /\ typeRet[1].gen = genLeaf(LeafDef).gen
        /\ typeRet[1] = genType(schema, ListFlagsCleared(typeArg[1]))

\* C30 witness: the nullable list of NonNull lists of nullable String is
\* two list wrappers and then the pointer
C30_Witness ==
    /\ Mapped
    /\ typeArg[1] = ListType(ListType(NamedType(N_String, FALSE), TRUE), FALSE)
    /\ typeRet[1] = Code(<<"Index", "Index", "Star">>, Prim("String"))

\* ------------------------------------------------ declaration order in main
\* the items of one kind the file holds, in file order
ItemsOf(kind) == SelectSeq(file, LAMBDA it : it.item = kind)
NamesOf(kind) == [i \in 1..Len(ItemsOf(kind)) |-> ItemsOf(kind)[i].name]

\* the names main is to emit a definition for: not built-in, not a root
\* operation type, and with a definition genDef returns a statement for
EmittedNames ==
    {n \in DOMAIN schema.Types :
        /\ ~schema.Types[n].BuiltIn
        /\ n \notin {schema.Query, schema.Mutation, schema.Subscription}
        /\ ~genDef(schema, schema.Types[n], omitDeprecated).nil}

\* C25: whatever the order the type map was ranged over, the type
\* definitions of the file are in strictly ascending order of name, and once
\* the loop over the types is through they are exactly the types that are
\* not built-in, not a root type and not a convenience scalar without
\* content.
C25_TypesSortedAndComplete ==
    pc \in {"main", "types", "saved"} =>
        /\ \A i \in 1..(Len(NamesOf("Def")) - 1) :
              Less(NamesOf("Def")[i], NamesOf("Def")[i + 1])
        /\ {NamesOf("Def")[i] : i \in 1..Len(NamesOf("Def"))} \subseteq EmittedNames
        /\ TypesEmitted =>
              {NamesOf("Def")[i] : i \in 1..Len(NamesOf("Def"))} = EmittedNames

\* C25 witness: for the schema with the scalar Map the file defines Bus,
\* Date, Node, Sort, SortOrder, Train, TrainInput, Vehicle in this order;
\* Any, Map, Time and Upload left no gap
C25_Witness ==
    /\ TypesEmitted
    /\ schema = ScalarMapSchema
    /\ NamesOf("Def") = <<N_Bus, N_Date, N_Node, N_Sort, N_SortOrder,
                          N_Train, N_TrainInput, N_Vehicle>>

\* C26: in the file every operation function comes after every type
\* definition and marker, and the operation functions are those of the
\* queries, document by document in the order the documents were supplied
\* and in document order within each; all of them once the file is saved.
C26_OperationsAfterTypesInOrder ==
    pc \in {"types", "saved"} =>
        LET expected == [i \in 1..Len(Join(queries)) |-> Title(Join(queries)[i].Name)]
        IN  /\ \A i, j \in 1..Len(file) :
                  file[i].item = "Op" /\ file[j].item # "Op" => j < i
            /\ Len(NamesOf("Op")) <= Len(expected)
            /\ NamesOf("Op") = SubSeq(expected, 1, Len(NamesOf("Op")))
            /\ pc = "saved" => NamesOf("Op") = expected

\* C26 witness: fetchTrain supplied in the first document and fetchName in
\* the second are saved as FetchTrain, then FetchName, after the types
C26_Witness ==
    /\ pc = "saved"
    /\ queries = <<(<<ReadmeOp>>), (<<FragOp>>)>>
    /\ NamesOf("Op") = <<<<"F","e","t","c","h","T","r","a","i","n">>, <<"F","e","t","c","h","N","a","m","e">>>>
    /\ file[Len(file) - 2].item # "Op"
\* ------------------------------------------------- Operation.Var properties
\* the operation that results from making the calls cs, in their order, on a
\* new operation; a call that panics changes nothing
RECURSIVE Replay(_)
Replay(cs) ==
    IF cs = <<>> THEN NewOperation(operation[1].query)
    ELSE Var(Replay(SubSeq(cs, 1, Len(cs) - 1)),
             cs[Len(cs)].k, cs[Len(cs)].v).op

KeysOf(cs) == {cs[i].k : i \in 1..Len(cs)}

\* the calls that returned
Returned == IF pc = "varPanic" THEN SubSeq(calls, 1, Len(calls) - 1) ELSE calls

\* C22: a call of Var with a key that is already bound panics, and only such
\* a call does; the panic leaves vars and uploads as the calls before it made
\* them; the keys of the calls that returned are distinct and vars holds, for
\* each of them, the value of its one call and nothing else.
C22_DuplicateKeyPanics ==
    operation # <<>> =>
        /\ pc = "varPanic" =>
              /\ calls[Len(calls)].k \in KeysOf(Returned)
              /\ operation[1] = Replay(Returned)
        /\ Distinct([i \in 1..Len(Returned) |-> Returned[i].k])
        /\ DOMAIN operation[1].vars = KeysOf(Returned)
        /\ \A i \in 1..Len(Returned) :
              operation[1].vars[Returned[i].k] = Returned[i].v

\* a list of uploads was bound to a key, and binding the key again panicked
C22_Witness ==
    /\ pc = "varPanic"
    /\ Len(calls) = 2
    /\ calls[1].v.type = "[]Upload"
    /\ calls[2].v.type = "Upload"
    /\ calls[1].k = calls[2].k
    /\ DOMAIN operation[1].uploads = {UploadKey(calls[1].k, 0), UploadKey(calls[1].k, 1)}

\* C24: a value that nests Upload in a list of lists makes Var panic.
C24_NestedUploadIsFatal ==
    \A i \in 1..Len(calls) :
        calls[i].v.type = "[][]Upload" => pc = "varPanic" /\ i = Len(calls)

\* the uploads a call passes: the direct one under the key, the elements of a
\* list under the key, a dot and their index; a nil pointer passes none
PassedUploads(call) ==
    CASE call.v.type \in {"Upload", "*Upload"} ->
            {<<call.k, call.v.elems[1]>>} \ {<<call.k, 0>>}
      [] call.v.type \in {"[]Upload", "[]*Upload"} ->
            {<<call.k \o <<".">> \o Itoa(i - 1), call.v.elems[i]>> :
                i \in {j \in 1..Len(call.v.elems) : call.v.elems[j] # 0}}
      [] OTHER -> {}

\* C28: after calls of Var that all returned, uploads holds one entry for
\* every upload passed, under its key, and no other entry.
C28_EveryUploadKept ==
    (operation # <<>> /\ pc # "varPanic") =>
        LET passed == UNION {PassedUploads(calls[i]) : i \in 1..Len(calls)}
            uploads == operation[1].uploads
        IN  /\ \A e \in passed : e[1] \in DOMAIN uploads /\ uploads[e[1]] = e[2]
            /\ Cardinality(DOMAIN uploads) = Cardinality(passed)

\* ------------------------------------------------ Client.Execute properties
\* C23: Execute returns nil exactly when no step of the transport failed and
\* the decoded response has no errors; when the response has errors, however
\* many, it returns the first of them.
C23_FirstErrorOnly ==
    pc = "executed" =>
        LET env == execArg[1]
            ret == execRet[1]
        IN  /\ ret.err = <<>> <=> (env.fail = "" /\ env.Errors = <<>>)
            /\ (env.fail = "" /\ Len(env.Errors) >= 1) =>
                  ret.err = <<env.Errors[1]>>
            /\ ret.sent <=> env.fail \in {"", "decode"}

\* a response with two different errors, of which the first came back, sent
\* for an operation with uploads
C23_Witness ==
    /\ pc = "executed"
    /\ Len(execArg[1].Errors) = 2
    /\ execArg[1].Errors[1] # execArg[1].Errors[2]
    /\ execRet[1].err = <<execArg[1].Errors[1]>>
    /\ execRet[1].multipart
\* ---------------------------------------- collectFragments termination
\* some fragment the selection set reaches is spread, directly or through
\* other fragments, by its own selection set
Cyclic(selSet) ==
    \E f \in Reachable(selSet) :
        f \in Closure(SpreadsIn(Fragments[f].SelectionSet))

\* C29: a call of collectFragments on a selection set whose fragments do not
\* spread themselves ends, by a return or by the alias panic; a call on a
\* selection set that reaches a fragment spreading itself never returns,
\* since the fragment is entered again although frags already holds it.
C29_TerminatesIffAcyclic ==
    /\ (pc = "collectFragments" /\ ~Cyclic(selArg[1]))
          ~> (pc \in {"collected", "collectPanic"})
    /\ [](pc = "collected" => ~Cyclic(selArg[1]))

\* the calls nest deeper than any selection set whose fragments end needs,
\* inside a fragment that frags held before this call entered it again
C29_Witness ==
    /\ pc = "collectFragments"
    /\ Cyclic(selArg[1])
    /\ Len(stack) > MaxStack
    /\ FragM \in frags
    /\ FragN \in frags
====
